---- MODULE Spec2Model ----
(***************************************************************************)
(* Backtest engine of src/data/python/backtest-executor.py:                *)
(* manual_backtest (single symbol), portfolio_backtest (shared capital),   *)
(* and the trade pairing of calculate_metrics_from_data.                   *)
(*                                                                         *)
(* Numbers.  Prices are whole currency units.  Money (cash, value,         *)
(* commission, equity) is kept in hundredths of a currency unit and the    *)
(* commission rate in percent, so that cost * (1 + commission) is the      *)
(* integer shares * price * (100 + commission).  A signal's amount is kept *)
(* in hundredths as well (hundredths of currency for type 'v', hundredths  *)
(* of a share for type 'a'), so int() truncation is visible.  Python's     *)
(* floats are read as exact rationals.                                     *)
(***************************************************************************)
EXTENDS Integers, Sequences, FiniteSets, TLC

VARIABLES
    mode,          \* "single" (manual_backtest) or "portfolio" (portfolio_backtest)
    data_map,      \* symbol -> sequence of bars sorted by date (single: one symbol)
    signals,       \* the strategy's signal list, in input order
    initial_cash,  \* hundredths
    commission,    \* percent
    constraints,   \* [maxPositions, reserveCash]; 0 = not set (falsy in the code)
    all_dates,     \* the dates the day loop walks, ascending
    cash,          \* hundredths
    shares,        \* manual_backtest: share count
    positions,     \* portfolio_backtest: dict symbol -> share count
    trades,        \* fill ledger
    equity_curve,  \* daily snapshots
    day,           \* index into the calendar of the date being processed
    pending,       \* what is left of the current date's work before its snapshot
    status,        \* "running", "finished" or "error"
    skipped_count, \* the count the run reports for skipped last-day signals
    metrics,       \* result of calculate_metrics_from_data ([] until computed)
    per_symbol_metrics, \* portfolio_backtest: the perSymbolMetrics list of the result
    main_df,       \* load_and_merge_external_datasets: the index of the main dataset
    ext_df,        \* the rows (date, value) of the external dataset that was loaded
    result_df      \* the rows of the merged dataset

vars == <<mode, data_map, signals, initial_cash, commission, constraints, all_dates, cash,
          shares, positions, trades, equity_curve, day, pending, status,
          skipped_count, metrics, per_symbol_metrics, main_df, ext_df, result_df>>

datasets == <<main_df, ext_df, result_df>>

inputs == <<mode, data_map, signals, initial_cash, commission, constraints, all_dates>>

----------------------------------------------------------------------------
(* Bounds and input alphabets *)

MaxSignals == 2
MaxLedgerSignals == 3
MaxSizingSignals == 2
MaxRejectSignals == 2
MaxBoundarySignals == 2
MaxMetricSignals == 2

Symbols == {"A", "B"}
SymbolOrder == <<"A", "B">>
SingleSymbol == "A"

Bar(d, o, c) == [date |-> d, open |-> o, close |-> c]

SeriesFull == <<Bar(1, 1, 1), Bar(2, 2, 2), Bar(3, 1, 2)>>
SeriesGap == <<Bar(1, 2, 1), Bar(3, 1, 1)>>
SeriesZeroClose == <<Bar(1, 1, 1), Bar(2, 1, 0), Bar(3, 1, 1)>>
SeriesZeroOpen == <<Bar(1, 1, 2), Bar(2, 0, 1)>>
SeriesEndsZeroClose == <<Bar(1, 1, 1), Bar(2, 2, 0)>>

\* the bars of the single-symbol scenario, and the same with a zero close
ScenarioBars == <<Bar(1, 10, 10), Bar(2, 11, 12), Bar(3, 13, 13)>>
ScenarioBadBars == <<Bar(1, 10, 10), Bar(2, 11, 12), Bar(3, 13, 0)>>

\* one bar only; and a fall, a rise above the start and a smaller relative fall
SeriesOneBar == <<Bar(1, 1, 1)>>
SeriesSwing == <<Bar(1, 4, 4), Bar(2, 2, 2), Bar(3, 10, 10), Bar(4, 6, 6)>>

SeriesChoices == {SeriesFull, SeriesGap, SeriesZeroClose, SeriesZeroOpen}

\* portfolio data: B has no bar on date 2; in the second map A's last bar
\* (date 2) has a zero close and A has no bar on date 3
DataClean == [A |-> SeriesFull, B |-> SeriesGap]
DataMixed == [A |-> SeriesEndsZeroClose, B |-> SeriesGap]

SignalDates == {1, 2, 3}
EarlyDates == {1, 2}
SignalTypes == {"v", "a"}
SignalAmounts == {-200, 300}
ExecutionModes == {"close", "next_open"}

Commissions == {10}
InitialCashes == {700}

----------------------------------------------------------------------------
(* Helpers *)

Abs(x) == IF x < 0 THEN -x ELSE x

\* mutant of Min: the sell size is not capped at the shares held
MinFirst(a, b) == a

Min(a, b) == IF a < b THEN a ELSE b

RECURSIVE SumSeq(_)
SumSeq(s) == IF s = <<>> THEN 0 ELSE Head(s) + SumSeq(Tail(s))

RECURSIVE SumFun(_)
SumFun(f) ==
    IF DOMAIN f = {} THEN 0
    ELSE LET k == CHOOSE x \in DOMAIN f : TRUE
         IN f[k] + SumFun([y \in DOMAIN f \ {k} |-> f[y]])

RECURSIVE SortedSeq(_)
SortedSeq(S) ==
    IF S = {} THEN <<>>
    ELSE LET m == CHOOSE x \in S : \A y \in S : x <= y
         IN <<m>> \o SortedSeq(S \ {m})

\* df.index.date of one symbol
BarDates(df) == {df[i].date : i \in DOMAIN df}
\* df[df.index.date == d].iloc[0]
BarOn(df, d) == df[CHOOSE i \in DOMAIN df : df[i].date = d /\ \A j \in DOMAIN df : df[j].date = d => i <= j]

\* int(x) of a non-negative quantity held in hundredths
IntOf(x) == x \div 100

----------------------------------------------------------------------------
(* Signal scheduling: the two lookup tables built before the day loop *)

\* signal.get('type', 'v')
TypeOf(signal) == IF "type" \in DOMAIN signal THEN signal.type ELSE "v"

\* float(signal.get('amount', 0))
AmountOf(signal) == IF "amount" \in DOMAIN signal THEN signal.amount ELSE 0

\* signal.get('execution', 'close')
ExecutionOf(signal) == IF "execution" \in DOMAIN signal THEN signal.execution ELSE "close"

\* 'close' goes to same_day_signals, anything else to next_day_signals
Bucket(signal) == IF ExecutionOf(signal) = "close" THEN "close" ELSE "next_open"

\* mutant of ManualSignalsFor: a bucket holds its signals in reverse input order
ManualSignalsForReversed(sigs, d, bucket) ==
    LET kept == SelectSeq(sigs, LAMBDA g : g.date = d /\ Bucket(g) = bucket)
    IN  [i \in DOMAIN kept |-> kept[Len(kept) + 1 - i]]

\* mutant of PortfolioSignalsFor: a signal is put in both tables, whatever its
\* execution timing
PortfolioSignalsForBothTables(sigs, dm, d, symbol, bucket) ==
    SelectSeq(sigs, LAMBDA g : g.symbol \in DOMAIN dm /\ g.symbol = symbol /\ g.date = d)

\* manual_backtest: same_day_signals[d] / next_day_signals[d], input order kept
ManualSignalsFor(sigs, d, bucket) ==
    SelectSeq(sigs, LAMBDA g : g.date = d /\ Bucket(g) = bucket)

\* portfolio_backtest: same_day_signals[(d, symbol)] / next_day_signals[(d, symbol)];
\* signals for a symbol that is not in data_map are dropped with a warning
PortfolioSignalsFor(sigs, dm, d, symbol, bucket) ==
    SelectSeq(sigs, LAMBDA g : g.symbol \in DOMAIN dm /\ g.symbol = symbol
                               /\ g.date = d /\ Bucket(g) = bucket)

\* the dates the day loop walks: the rows of df (single) or the sorted union
\* of every symbol's dates (portfolio)
ManualDates(dm) == [i \in DOMAIN dm[SingleSymbol] |-> dm[SingleSymbol][i].date]
\* mutant of AllDates: the calendar is taken from the first symbol's series only
AllDatesFirstSymbol(dm) == SortedSeq(BarDates(dm[SymbolOrder[1]]))

AllDates(dm) == SortedSeq(UNION {BarDates(dm[s]) : s \in DOMAIN dm})
Calendar(m, dm) == IF m = "single" THEN ManualDates(dm) ELSE AllDates(dm)

----------------------------------------------------------------------------
(* Trade execution *)

NoFill == <<>>

\* mutant of DesiredShares: the amount of a type 'a' signal is divided by the
\* price as well
DesiredSharesAllNotional(type, amount, execution_price) ==
    Abs(amount) \div (100 * execution_price)

\* mutant of DesiredShares: the size is rounded up instead of truncated
DesiredSharesRoundedUp(type, amount, execution_price) ==
    IF type = "v" THEN (Abs(amount) + 100 * execution_price - 1) \div (100 * execution_price)
    ELSE (Abs(amount) + 99) \div 100

\* raw desired size: int(amount / execution_price) for 'v', int(amount) for 'a'
DesiredShares(type, amount, execution_price) ==
    IF type = "v" THEN Abs(amount) \div (100 * execution_price)
    ELSE IntOf(Abs(amount))

ManualFill(side, size, execution_date, execution_price, signal_date, signal_price, execution_mode, comm) ==
    [signal_date |-> signal_date, execution_date |-> execution_date,
     type |-> side, price |-> execution_price, signal_price |-> signal_price,
     size |-> size, value |-> size * execution_price * 100,
     commission |-> size * execution_price * comm,
     execution_mode |-> execution_mode]

\* mutant of ManualExecuteTrade: a sell credits its full value, the commission
\* is recorded but not deducted
ManualExecuteTradeSellGross(signal, execution_date, execution_price, signal_date, signal_price, execution_mode, c, sh, comm) ==
    LET amount == AmountOf(signal)
        want == DesiredShares(TypeOf(signal), amount, execution_price)
        shares_to_buy == want
        total_cost == shares_to_buy * execution_price * (100 + comm)
        shares_to_sell == Min(want, sh)
        proceeds == shares_to_sell * execution_price * 100
        same == [cash |-> c, shares |-> sh, fill |-> NoFill]
    IN  IF amount = 0 \/ TypeOf(signal) \notin {"v", "a"} THEN same
        ELSE IF amount > 0
        THEN IF total_cost <= c /\ shares_to_buy > 0
             THEN [cash |-> c - total_cost, shares |-> sh + shares_to_buy,
                   fill |-> <<ManualFill("buy", shares_to_buy, execution_date,
                                         execution_price, signal_date, signal_price,
                                         execution_mode, comm)>>]
             ELSE same
        ELSE IF shares_to_sell > 0
             THEN [cash |-> c + proceeds, shares |-> sh - shares_to_sell,
                   fill |-> <<ManualFill("sell", shares_to_sell, execution_date,
                                         execution_price, signal_date, signal_price,
                                         execution_mode, comm)>>]
             ELSE same

\* mutant of ManualExecuteTrade: a buy is applied without comparing its total
\* cost with the cash held
ManualExecuteTradeNoCashCheck(signal, execution_date, execution_price, signal_date, signal_price, execution_mode, c, sh, comm) ==
    LET amount == AmountOf(signal)
        want == DesiredShares(TypeOf(signal), amount, execution_price)
        total_cost == want * execution_price * (100 + comm)
        shares_to_sell == Min(want, sh)
        same == [cash |-> c, shares |-> sh, fill |-> NoFill]
    IN  IF amount > 0 /\ want > 0
        THEN [cash |-> c - total_cost, shares |-> sh + want,
              fill |-> <<ManualFill("buy", want, execution_date, execution_price,
                                    signal_date, signal_price, execution_mode, comm)>>]
        ELSE IF amount < 0 /\ shares_to_sell > 0
        THEN [cash |-> c + shares_to_sell * execution_price * (100 - comm),
              shares |-> sh - shares_to_sell,
              fill |-> <<ManualFill("sell", shares_to_sell, execution_date,
                                    execution_price, signal_date, signal_price,
                                    execution_mode, comm)>>]
        ELSE same

\* mutant of ManualExecuteTrade: a fill is recorded whatever its size
ManualExecuteTradeZeroFill(signal, execution_date, execution_price, signal_date, signal_price, execution_mode, c, sh, comm) ==
    LET amount == AmountOf(signal)
        want == DesiredShares(TypeOf(signal), amount, execution_price)
        total_cost == want * execution_price * (100 + comm)
        shares_to_sell == Min(want, sh)
        same == [cash |-> c, shares |-> sh, fill |-> NoFill]
    IN  IF amount = 0 \/ TypeOf(signal) \notin {"v", "a"} THEN same
        ELSE IF amount > 0
        THEN IF total_cost <= c
             THEN [cash |-> c - total_cost, shares |-> sh + want,
                   fill |-> <<ManualFill("buy", want, execution_date, execution_price,
                                         signal_date, signal_price, execution_mode, comm)>>]
             ELSE same
        ELSE [cash |-> c + shares_to_sell * execution_price * (100 - comm),
              shares |-> sh - shares_to_sell,
              fill |-> <<ManualFill("sell", shares_to_sell, execution_date,
                                    execution_price, signal_date, signal_price,
                                    execution_mode, comm)>>]

\* mutant of ManualExecuteTrade: a buy that costs more than the cash held is
\* filled with the shares the cash can pay for
ManualExecuteTradePartial(signal, execution_date, execution_price, signal_date, signal_price, execution_mode, c, sh, comm) ==
    LET amount == AmountOf(signal)
        want == DesiredShares(TypeOf(signal), amount, execution_price)
        affordable == c \div (execution_price * (100 + comm))
        shares_to_buy == Min(want, affordable)
        total_cost == shares_to_buy * execution_price * (100 + comm)
        shares_to_sell == Min(want, sh)
        same == [cash |-> c, shares |-> sh, fill |-> NoFill]
    IN  IF amount = 0 \/ TypeOf(signal) \notin {"v", "a"} THEN same
        ELSE IF amount > 0
        THEN IF shares_to_buy > 0
             THEN [cash |-> c - total_cost, shares |-> sh + shares_to_buy,
                   fill |-> <<ManualFill("buy", shares_to_buy, execution_date,
                                         execution_price, signal_date, signal_price,
                                         execution_mode, comm)>>]
             ELSE same
        ELSE IF shares_to_sell > 0
             THEN [cash |-> c + shares_to_sell * execution_price * (100 - comm),
                   shares |-> sh - shares_to_sell,
                   fill |-> <<ManualFill("sell", shares_to_sell, execution_date,
                                         execution_price, signal_date, signal_price,
                                         execution_mode, comm)>>]
             ELSE same

\* manual_backtest.execute_trade: the new cash and shares and the fill appended
\* (none when the signal is not filled)
ManualExecuteTrade(signal, execution_date, execution_price, signal_date, signal_price, execution_mode, c, sh, comm) ==
    LET amount == AmountOf(signal)
        want == DesiredShares(TypeOf(signal), amount, execution_price)
        shares_to_buy == want
        total_cost == shares_to_buy * execution_price * (100 + comm)
        shares_to_sell == Min(want, sh)
        proceeds == shares_to_sell * execution_price * (100 - comm)
        same == [cash |-> c, shares |-> sh, fill |-> NoFill]
    IN  IF amount = 0 \/ TypeOf(signal) \notin {"v", "a"} THEN same
        ELSE IF amount > 0
        THEN IF total_cost <= c /\ shares_to_buy > 0
             THEN [cash |-> c - total_cost, shares |-> sh + shares_to_buy,
                   fill |-> <<ManualFill("buy", shares_to_buy, execution_date,
                                         execution_price, signal_date, signal_price,
                                         execution_mode, comm)>>]
             ELSE same
        ELSE IF shares_to_sell > 0
             THEN [cash |-> c + proceeds, shares |-> sh - shares_to_sell,
                   fill |-> <<ManualFill("sell", shares_to_sell, execution_date,
                                         execution_price, signal_date, signal_price,
                                         execution_mode, comm)>>]
             ELSE same

\* positions.get(symbol, 0)
Held(pos, symbol) == IF symbol \in DOMAIN pos THEN pos[symbol] ELSE 0

\* mutant of SetPosition: the dict is replaced by one holding the traded
\* symbol only
SetPositionAlone(pos, symbol, n) == [s \in {symbol} |-> n]

\* positions[symbol] = n
SetPosition(pos, symbol, n) ==
    [s \in DOMAIN pos \cup {symbol} |-> IF s = symbol THEN n ELSE pos[s]]

\* sum(1 for shares in positions.values() if shares > 0)
PositionCount(pos) == Cardinality({s \in DOMAIN pos : pos[s] > 0})

\* mutant of MaxPositionsBlocks: the count is compared with > instead of >=
MaxPositionsBlocksLate(cons, pos, symbol) ==
    /\ cons.maxPositions # 0
    /\ Held(pos, symbol) = 0
    /\ PositionCount(pos) > cons.maxPositions

\* mutant of MaxPositionsBlocks: at the cap every buy is skipped, whether or
\* not its symbol is held
MaxPositionsBlocksHeld(cons, pos, symbol) ==
    /\ cons.maxPositions # 0
    /\ PositionCount(pos) >= cons.maxPositions

\* the max-positions check of a buy: TRUE when the buy must be skipped
MaxPositionsBlocks(cons, pos, symbol) ==
    /\ cons.maxPositions # 0
    /\ Held(pos, symbol) = 0
    /\ PositionCount(pos) >= cons.maxPositions

\* mutant of ReserveShares: the reserve is not applied to the size
ReserveSharesIgnored(cons, init, c, want, execution_price, comm) == want

\* mutant of ReserveShares: the shrunk size multiplies the available cash by
\* (1 + commission) instead of dividing by it
ReserveSharesTimesCommission(cons, init, c, want, execution_price, comm) ==
    LET min_cash100 == init * cons.reserveCash
        total_cost == want * execution_price * (100 + comm)
        available100 == c * 100 - min_cash100
    IN  IF cons.reserveCash = 0 THEN want
        ELSE IF (c - total_cost) * 100 < min_cash100
        THEN IF available100 <= 0 THEN -1
             ELSE (available100 * (100 + comm)) \div (100 * 100 * 100 * execution_price)
        ELSE want

\* mutant of ReserveShares: the shrunk size is one share short of the largest
\* size the cash above the reserve pays for
ReserveSharesOneShort(cons, init, c, want, execution_price, comm) ==
    LET min_cash100 == init * cons.reserveCash
        total_cost == want * execution_price * (100 + comm)
        available100 == c * 100 - min_cash100
        largest == available100 \div (100 * execution_price * (100 + comm))
    IN  IF cons.reserveCash = 0 THEN want
        ELSE IF (c - total_cost) * 100 < min_cash100
        THEN IF available100 <= 0 THEN -1
             ELSE IF largest > 0 THEN largest - 1 ELSE 0
        ELSE want

\* the reserve-cash adjustment of a buy.  c - total_cost < min_cash is compared
\* in units of 1/100 of a hundredth so that initial_cash * reserveCash / 100 stays
\* exact.  Result: the size to buy, or -1 for the early return (available <= 0).
ReserveShares(cons, init, c, want, execution_price, comm) ==
    LET min_cash100 == init * cons.reserveCash
        total_cost == want * execution_price * (100 + comm)
        available100 == c * 100 - min_cash100
    IN  IF cons.reserveCash = 0 THEN want
        ELSE IF (c - total_cost) * 100 < min_cash100
        THEN IF available100 <= 0 THEN -1
             ELSE available100 \div (100 * execution_price * (100 + comm))
        ELSE want

PortfolioFill(side, symbol, size, execution_date, execution_price, signal_date, signal_price, execution_mode, comm) ==
    [signal_date |-> signal_date, execution_date |-> execution_date,
     symbol |-> symbol,
     type |-> side, price |-> execution_price, signal_price |-> signal_price,
     size |-> size, value |-> size * execution_price * 100,
     commission |-> size * execution_price * comm,
     execution_mode |-> execution_mode]

\* mutant of PortfolioExecuteTrade: a buy that is not filled raises
PortfolioExecuteTradeRejectRaises(signal, symbol, execution_date, execution_price, signal_date, signal_price, execution_mode, c, pos, init, comm, cons) ==
    LET amount == AmountOf(signal)
        want == DesiredShares(TypeOf(signal), amount, execution_price)
        same == [cash |-> c, positions |-> pos, fill |-> NoFill, raised |-> FALSE]
        below_reserve == /\ TypeOf(signal) = "v"
                         /\ cons.reserveCash # 0
                         /\ c * 100 < init * cons.reserveCash
        shares_to_buy == ReserveShares(cons, init, c, want, execution_price, comm)
        total_cost == shares_to_buy * execution_price * (100 + comm)
        current_shares == Held(pos, symbol)
        shares_to_sell == Min(want, current_shares)
        proceeds == shares_to_sell * execution_price * (100 - comm)
        new_position == current_shares - shares_to_sell
    IN  IF amount = 0 \/ TypeOf(signal) \notin {"v", "a"} THEN same
        ELSE IF amount > 0
        THEN IF MaxPositionsBlocks(cons, pos, symbol) \/ below_reserve
                \/ shares_to_buy = -1
             THEN [same EXCEPT !.raised = TRUE]
             ELSE IF total_cost <= c /\ shares_to_buy > 0
             THEN [cash |-> c - total_cost,
                   positions |-> SetPosition(pos, symbol, current_shares + shares_to_buy),
                   fill |-> <<PortfolioFill("buy", symbol, shares_to_buy, execution_date,
                                            execution_price, signal_date, signal_price,
                                            execution_mode, comm)>>,
                   raised |-> FALSE]
             ELSE [same EXCEPT !.raised = TRUE]
        ELSE IF shares_to_sell > 0
             THEN [cash |-> c + proceeds,
                   positions |-> SetPosition(pos, symbol, new_position),
                   fill |-> <<PortfolioFill("sell", symbol, shares_to_sell,
                                            execution_date, execution_price,
                                            signal_date, signal_price,
                                            execution_mode, comm)>>,
                   raised |-> FALSE]
             ELSE same

\* mutant of PortfolioExecuteTrade: the reserve check stands ahead of sells too
PortfolioExecuteTradeReserveOnSells(signal, symbol, execution_date, execution_price, signal_date, signal_price, execution_mode, c, pos, init, comm, cons) ==
    LET amount == AmountOf(signal)
        want == DesiredShares(TypeOf(signal), amount, execution_price)
        same == [cash |-> c, positions |-> pos, fill |-> NoFill, raised |-> FALSE]
        below_reserve == /\ cons.reserveCash # 0
                         /\ c * 100 < init * cons.reserveCash
        shares_to_buy == ReserveShares(cons, init, c, want, execution_price, comm)
        total_cost == shares_to_buy * execution_price * (100 + comm)
        current_shares == Held(pos, symbol)
        shares_to_sell == Min(want, current_shares)
        proceeds == shares_to_sell * execution_price * (100 - comm)
        new_position == current_shares - shares_to_sell
    IN  IF amount = 0 \/ TypeOf(signal) \notin {"v", "a"} THEN same
        ELSE IF below_reserve THEN same
        ELSE IF amount > 0
        THEN IF MaxPositionsBlocks(cons, pos, symbol) \/ shares_to_buy = -1
             THEN same
             ELSE IF total_cost <= c /\ shares_to_buy > 0
             THEN [cash |-> c - total_cost,
                   positions |-> SetPosition(pos, symbol, current_shares + shares_to_buy),
                   fill |-> <<PortfolioFill("buy", symbol, shares_to_buy, execution_date,
                                            execution_price, signal_date, signal_price,
                                            execution_mode, comm)>>,
                   raised |-> FALSE]
             ELSE same
        ELSE IF shares_to_sell > 0
             THEN [cash |-> c + proceeds,
                   positions |-> SetPosition(pos, symbol, new_position),
                   fill |-> <<PortfolioFill("sell", symbol, shares_to_sell,
                                            execution_date, execution_price,
                                            signal_date, signal_price,
                                            execution_mode, comm)>>,
                   raised |-> FALSE]
             ELSE same

\* portfolio_backtest.execute_trade: the new cash and positions, the fill appended
\* (none when the signal is not filled) and whether the sell raised its ValueError
PortfolioExecuteTrade(signal, symbol, execution_date, execution_price, signal_date, signal_price, execution_mode, c, pos, init, comm, cons) ==
    LET amount == AmountOf(signal)
        want == DesiredShares(TypeOf(signal), amount, execution_price)
        same == [cash |-> c, positions |-> pos, fill |-> NoFill, raised |-> FALSE]
        \* type 'v' only: "if cash < min_cash: return" ahead of the sizing
        below_reserve == /\ TypeOf(signal) = "v"
                         /\ cons.reserveCash # 0
                         /\ c * 100 < init * cons.reserveCash
        shares_to_buy == ReserveShares(cons, init, c, want, execution_price, comm)
        total_cost == shares_to_buy * execution_price * (100 + comm)
        current_shares == Held(pos, symbol)
        shares_to_sell == Min(want, current_shares)
        proceeds == shares_to_sell * execution_price * (100 - comm)
        new_position == current_shares - shares_to_sell
    IN  IF amount = 0 \/ TypeOf(signal) \notin {"v", "a"} THEN same
        ELSE IF amount > 0
        THEN IF MaxPositionsBlocks(cons, pos, symbol) \/ below_reserve
                \/ shares_to_buy = -1
             THEN same
             ELSE IF total_cost <= c /\ shares_to_buy > 0
             THEN [cash |-> c - total_cost,
                   positions |-> SetPosition(pos, symbol, current_shares + shares_to_buy),
                   fill |-> <<PortfolioFill("buy", symbol, shares_to_buy, execution_date,
                                            execution_price, signal_date, signal_price,
                                            execution_mode, comm)>>,
                   raised |-> FALSE]
             ELSE same
        ELSE IF shares_to_sell > 0
             THEN IF new_position < 0
                  THEN [cash |-> c + proceeds, positions |-> pos, fill |-> NoFill,
                        raised |-> TRUE]
                  ELSE [cash |-> c + proceeds,
                        positions |-> SetPosition(pos, symbol, new_position),
                        fill |-> <<PortfolioFill("sell", symbol, shares_to_sell,
                                                 execution_date, execution_price,
                                                 signal_date, signal_price,
                                                 execution_mode, comm)>>,
                        raised |-> FALSE]
             ELSE same

----------------------------------------------------------------------------
(* The work of one date, in the order the loop body performs it.  A task is  *)
(* one execute_trade call, or the raise of a price check that fails.         *)

TradeTask(signal, symbol, execution_date, execution_price, signal_date, signal_price, execution_mode) ==
    [kind |-> "trade", signal |-> signal, symbol |-> symbol,
     execution_date |-> execution_date, execution_price |-> execution_price,
     signal_date |-> signal_date, signal_price |-> signal_price,
     execution_mode |-> execution_mode]

RaiseTask == [kind |-> "raise"]

\* one task per signal of a bucket, in the bucket's order
TasksOf(bucket, symbol, execution_date, execution_price, signal_date, signal_price, execution_mode) ==
    [i \in DOMAIN bucket |->
        TradeTask(bucket[i], symbol, execution_date, execution_price, signal_date,
                  signal_price, execution_mode)]

\* mutant of ManualTasks: the day's same-day signals are executed before the
\* next-day signals of the previous row
ManualTasksCloseFirst(dm, sigs, k) ==
    LET df == dm[SingleSymbol]
        row == df[k]
        current_date == row.date
        opens == IF k > 1
                 THEN TasksOf(ManualSignalsFor(sigs, df[k - 1].date, "next_open"),
                              SingleSymbol, current_date, row.open, df[k - 1].date,
                              df[k - 1].close, "next_open")
                 ELSE <<>>
        closes == TasksOf(ManualSignalsFor(sigs, current_date, "close"), SingleSymbol,
                          current_date, row.close, current_date, row.close, "close")
    IN  IF row.close <= 0 \/ row.open <= 0 THEN <<RaiseTask>>
        ELSE closes \o opens

\* manual_backtest, loop body up to the snapshot, for the k-th row of df
ManualTasks(dm, sigs, k) ==
    LET df == dm[SingleSymbol]
        row == df[k]
        current_date == row.date
        opens == IF k > 1
                 THEN TasksOf(ManualSignalsFor(sigs, df[k - 1].date, "next_open"),
                              SingleSymbol, current_date, row.open, df[k - 1].date,
                              df[k - 1].close, "next_open")
                 ELSE <<>>
        closes == TasksOf(ManualSignalsFor(sigs, current_date, "close"), SingleSymbol,
                          current_date, row.close, current_date, row.close, "close")
    IN  IF row.close <= 0 \/ row.open <= 0 THEN <<RaiseTask>>
        ELSE opens \o closes

\* portfolio_backtest: the next-day pass of one symbol on current_date
PortfolioOpenTasks(dm, sigs, prev_date, current_date, symbol) ==
    LET df == dm[symbol]
        bucket == PortfolioSignalsFor(sigs, dm, prev_date, symbol, "next_open")
        execution_price == BarOn(df, current_date).open
        signal_price == IF prev_date \in BarDates(df)
                        THEN BarOn(df, prev_date).close
                        ELSE execution_price
    IN  IF bucket = <<>> \/ current_date \notin BarDates(df) THEN <<>>
        ELSE IF execution_price <= 0 THEN <<RaiseTask>>
        ELSE TasksOf(bucket, symbol, current_date, execution_price, prev_date,
                     signal_price, "next_open")

\* mutant of PortfolioCloseTasks: the same-day signals are executed at the open
PortfolioCloseTasksAtOpen(dm, sigs, current_date, symbol) ==
    LET df == dm[symbol]
        bucket == PortfolioSignalsFor(sigs, dm, current_date, symbol, "close")
        execution_price == BarOn(df, current_date).open
    IN  IF bucket = <<>> \/ current_date \notin BarDates(df) THEN <<>>
        ELSE IF execution_price <= 0 THEN <<RaiseTask>>
        ELSE TasksOf(bucket, symbol, current_date, execution_price, current_date,
                     execution_price, "close")

\* portfolio_backtest: the same-day pass of one symbol on current_date
PortfolioCloseTasks(dm, sigs, current_date, symbol) ==
    LET df == dm[symbol]
        bucket == PortfolioSignalsFor(sigs, dm, current_date, symbol, "close")
        execution_price == BarOn(df, current_date).close
    IN  IF bucket = <<>> \/ current_date \notin BarDates(df) THEN <<>>
        ELSE IF execution_price <= 0 THEN <<RaiseTask>>
        ELSE TasksOf(bucket, symbol, current_date, execution_price, current_date,
                     execution_price, "close")

\* data_map.keys()
KeysOf(dm) == SelectSeq(SymbolOrder, LAMBDA s : s \in DOMAIN dm)

RECURSIVE OpenTasksOver(_, _, _, _, _)
\* the next-day pass: the open tasks of each symbol, in data_map's key order
OpenTasksOver(dm, sigs, prev_date, current_date, order) ==
    IF order = <<>> THEN <<>>
    ELSE PortfolioOpenTasks(dm, sigs, prev_date, current_date, Head(order))
         \o OpenTasksOver(dm, sigs, prev_date, current_date, Tail(order))

RECURSIVE CloseTasksOver(_, _, _, _)
\* the same-day pass: the close tasks of each symbol, in data_map's key order
CloseTasksOver(dm, sigs, current_date, order) ==
    IF order = <<>> THEN <<>>
    ELSE PortfolioCloseTasks(dm, sigs, current_date, Head(order))
         \o CloseTasksOver(dm, sigs, current_date, Tail(order))

\* mutant of PortfolioTasks: the symbols of a date are taken in the order of
\* their first signal in the list
PortfolioTasksInSignalOrder(dm, sigs, dates, k) ==
    LET current_date == dates[k]
        FirstAt(s) == IF \E i \in DOMAIN sigs : sigs[i].symbol = s
                      THEN CHOOSE i \in DOMAIN sigs :
                               /\ sigs[i].symbol = s
                               /\ \A j \in 1 .. i - 1 : sigs[j].symbol # s
                      ELSE Len(sigs) + 1
        order == SortSeq(KeysOf(dm), LAMBDA a, b : FirstAt(a) < FirstAt(b))
        opens == IF k > 1
                 THEN OpenTasksOver(dm, sigs, dates[k - 1], current_date, order)
                 ELSE <<>>
        closes == CloseTasksOver(dm, sigs, current_date, order)
    IN  opens \o closes

\* portfolio_backtest, loop body up to the valuation, for the k-th date
PortfolioTasks(dm, sigs, dates, k) ==
    LET current_date == dates[k]
        opens == IF k > 1
                 THEN OpenTasksOver(dm, sigs, dates[k - 1], current_date, KeysOf(dm))
                 ELSE <<>>
        closes == CloseTasksOver(dm, sigs, current_date, KeysOf(dm))
    IN  opens \o closes

----------------------------------------------------------------------------
(* Daily valuation *)

\* mutant of ManualSnapshot: the day's value leaves out the shares held
ManualSnapshotCashOnly(current_date, current_close, c, sh) ==
    [date |-> current_date, value |-> c, cash |-> c,
     shares |-> sh, stock_value |-> sh * current_close * 100]

\* manual_backtest: the equity_curve entry of the day
ManualSnapshot(current_date, current_close, c, sh) ==
    [date |-> current_date, value |-> c + sh * current_close * 100, cash |-> c,
     shares |-> sh, stock_value |-> sh * current_close * 100]

\* mutant of Valuation: the last-known-price branch writes stock_values but
\* does not add the value to portfolio_value
ValuationFallbackNotAdded(dm, pos, symbol, current_date) ==
    LET df == dm[symbol]
        sh == pos[symbol]
        past_dates == {d \in BarDates(df) : d < current_date}
        last_known_date == CHOOSE d \in past_dates : \A e \in past_dates : e <= d
        last_price == BarOn(df, last_known_date).close
    IN  IF current_date \in BarDates(df)
        THEN [stock |-> sh * BarOn(df, current_date).close * 100,
              added |-> sh * BarOn(df, current_date).close * 100]
        ELSE IF past_dates # {} /\ last_price > 0
        THEN [stock |-> sh * last_price * 100, added |-> 0]
        ELSE [stock |-> 0, added |-> 0]

\* mutant of Valuation: the fallback takes the earliest bar before the date
ValuationEarliestBar(dm, pos, symbol, current_date) ==
    LET df == dm[symbol]
        sh == pos[symbol]
        past_dates == {d \in BarDates(df) : d < current_date}
        last_known_date == CHOOSE d \in past_dates : \A e \in past_dates : d <= e
        last_price == BarOn(df, last_known_date).close
    IN  IF current_date \in BarDates(df)
        THEN [stock |-> sh * BarOn(df, current_date).close * 100,
              added |-> sh * BarOn(df, current_date).close * 100]
        ELSE IF past_dates # {}
        THEN IF last_price <= 0
             THEN [stock |-> 0, added |-> 0]
             ELSE [stock |-> sh * last_price * 100, added |-> sh * last_price * 100]
        ELSE [stock |-> 0, added |-> 0]

\* portfolio_backtest: what the valuation loop does for one held symbol
\* (shares > 0): the entry written to stock_values and the amount added to
\* portfolio_value
Valuation(dm, pos, symbol, current_date) ==
    LET df == dm[symbol]
        sh == pos[symbol]
        past_dates == {d \in BarDates(df) : d < current_date}
        last_known_date == CHOOSE d \in past_dates : \A e \in past_dates : e <= d
        last_price == BarOn(df, last_known_date).close
    IN  IF current_date \in BarDates(df)
        THEN [stock |-> sh * BarOn(df, current_date).close * 100,
              added |-> sh * BarOn(df, current_date).close * 100]
        ELSE IF past_dates # {}
        THEN IF last_price <= 0
             THEN [stock |-> 0, added |-> 0]
             ELSE [stock |-> sh * last_price * 100, added |-> sh * last_price * 100]
        ELSE [stock |-> 0, added |-> 0]

\* which branch values a held symbol: "bar", "fallback", "bad_fallback", "none"
ValuationBranch(dm, symbol, current_date) ==
    LET df == dm[symbol]
        past_dates == {d \in BarDates(df) : d < current_date}
        last_known_date == CHOOSE d \in past_dates : \A e \in past_dates : e <= d
    IN  IF current_date \in BarDates(df) THEN "bar"
        ELSE IF past_dates = {} THEN "none"
        ELSE IF BarOn(df, last_known_date).close <= 0 THEN "bad_fallback"
        ELSE "fallback"

HeldSymbols(pos) == {s \in DOMAIN pos : pos[s] > 0}

\* mutant of ValuationRaises: the valuation loop checks no price
ValuationNeverRaises(dm, pos, current_date) == FALSE

\* the valuation loop raises: negative shares, or a held symbol whose bar of
\* the day has close <= 0 (value < 0 cannot happen once the price is positive)
ValuationRaises(dm, pos, current_date) ==
    \/ \E s \in DOMAIN pos : pos[s] < 0
    \/ \E s \in HeldSymbols(pos) :
          /\ current_date \in BarDates(dm[s])
          /\ BarOn(dm[s], current_date).close <= 0

\* stock_values: the held symbols, then 0 for every symbol with a bar today
StockValues(dm, pos, current_date) ==
    [s \in HeldSymbols(pos) \cup {t \in DOMAIN dm : current_date \in BarDates(dm[t])} |->
        IF s \in HeldSymbols(pos) THEN Valuation(dm, pos, s, current_date).stock ELSE 0]

\* portfolio_value = cash, then += value in the branches that add it
PortfolioValue(dm, pos, c, current_date) ==
    c + SumFun([s \in HeldSymbols(pos) |-> Valuation(dm, pos, s, current_date).added])

PortfolioSnapshot(dm, pos, c, current_date) ==
    [date |-> current_date, value |-> PortfolioValue(dm, pos, c, current_date),
     cash |-> c, positions |-> pos, stock_values |-> StockValues(dm, pos, current_date)]

\* the validations that follow equity_curve.append: TRUE when one of them raises
SnapshotRaises(snap) ==
    \/ snap.cash < 0
    \/ \E s \in DOMAIN snap.stock_values : snap.stock_values[s] < 0
    \/ Abs(snap.cash + SumFun(snap.stock_values) - snap.value) > 1

----------------------------------------------------------------------------
(* Metrics: the trade pairing of calculate_metrics_from_data *)

RECURSIVE PairTradesLifo(_, _)
\* mutant of PairTrades: a sell is paired with the newest buy price, not the
\* oldest
PairTradesLifo(ledger, buy_prices) ==
    IF ledger = <<>> THEN <<>>
    ELSE LET trade == Head(ledger)
         IN  IF trade.type = "buy"
             THEN PairTradesLifo(Tail(ledger), <<trade.price>> \o buy_prices)
             ELSE IF trade.type = "sell" /\ buy_prices # <<>>
             THEN <<[sell |-> trade.price, buy |-> Head(buy_prices)]>>
                  \o PairTradesLifo(Tail(ledger), Tail(buy_prices))
             ELSE PairTradesLifo(Tail(ledger), buy_prices)

RECURSIVE PairTrades(_, _)
\* sell_prices: each sell is paired with buy_prices.pop(0) when buy_prices is
\* not empty; every buy appends its price to buy_prices
PairTrades(ledger, buy_prices) ==
    IF ledger = <<>> THEN <<>>
    ELSE LET trade == Head(ledger)
         IN  IF trade.type = "buy"
             THEN PairTrades(Tail(ledger), Append(buy_prices, trade.price))
             ELSE IF trade.type = "sell" /\ buy_prices # <<>>
             THEN <<[sell |-> trade.price, buy |-> Head(buy_prices)]>>
                  \o PairTrades(Tail(ledger), Tail(buy_prices))
             ELSE PairTrades(Tail(ledger), buy_prices)

RECURSIVE DrawdownMaxAbsoluteFrom(_, _, _, _, _)
DrawdownMaxAbsoluteFrom(values, peak, max_drawdown, num, den) ==
    IF values = <<>> THEN [maxDrawdown |-> max_drawdown, pct |-> [num |-> num, den |-> den]]
    ELSE LET value == Head(values)
             new_peak == IF value > peak THEN value ELSE peak
             drawdown == new_peak - value
         IN  IF drawdown > max_drawdown
             THEN DrawdownMaxAbsoluteFrom(Tail(values), new_peak, drawdown, drawdown, new_peak)
             ELSE DrawdownMaxAbsoluteFrom(Tail(values), new_peak, max_drawdown, num, den)

\* mutant of Drawdown: the largest absolute drawdown is kept, with its percentage
DrawdownMaxAbsolute(values, init) == DrawdownMaxAbsoluteFrom(values, init, 0, 0, 1)

RECURSIVE FractionGreater(_, _, _, _)
\* a / b > c / d for a, c >= 0 and b, d > 0, by whole parts and then the
\* remainders' reciprocals, so that no product leaves the integer range
FractionGreater(a, b, c, d) ==
    IF a \div b # c \div d THEN a \div b > c \div d
    ELSE IF a % b = 0 THEN FALSE
    ELSE IF c % d = 0 THEN TRUE
    ELSE FractionGreater(d, c % d, b, a % b)

RECURSIVE DrawdownFrom(_, _, _, _, _)
\* the drawdown loop.  The percentage drawdown / peak * 100 is kept as the
\* fraction num / den (den > 0), and drawdown_pct > max_drawdown_pct is
\* compared exactly as fractions; peak <= 0 gives the percentage 0
DrawdownFrom(values, peak, max_drawdown, num, den) ==
    IF values = <<>> THEN [maxDrawdown |-> max_drawdown, pct |-> [num |-> num, den |-> den]]
    ELSE LET value == Head(values)
             new_peak == IF value > peak THEN value ELSE peak
             drawdown == new_peak - value
             n == IF new_peak > 0 THEN drawdown ELSE 0
             d == IF new_peak > 0 THEN new_peak ELSE 1
         IN  IF FractionGreater(n, d, num, den)
             THEN DrawdownFrom(Tail(values), new_peak, drawdown, n, d)
             ELSE DrawdownFrom(Tail(values), new_peak, max_drawdown, num, den)

\* peak = initial_cash, max_drawdown = 0, max_drawdown_pct = 0, then the loop
Drawdown(values, init) == DrawdownFrom(values, init, 0, 0, 1)

EmptyMetrics == [computed |-> FALSE]

\* calculate_metrics_from_data: {} for fewer than two snapshots.  A percentage
\* p is kept as the fraction num / den with p = 100 * num / den for the
\* drawdown and p = num / den for the return
CalculateMetrics(curve, ledger, init) ==
    LET values == [i \in DOMAIN curve |-> curve[i].value]
        final_value == values[Len(values)]
        total_return == final_value - init
        drawdown == Drawdown(values, init)
        sell_prices == PairTrades(ledger, <<>>)
        wins == SelectSeq(sell_prices, LAMBDA p : p.sell > p.buy)
        losses == SelectSeq(sell_prices, LAMBDA p : p.sell <= p.buy)
    IN  IF Len(curve) < 2 THEN EmptyMetrics
        ELSE [computed |-> TRUE,
              totalReturn |-> total_return,
              totalReturnPct |-> IF init > 0 THEN [num |-> total_return * 100, den |-> init]
                                 ELSE [num |-> 0, den |-> 1],
              maxDrawdown |-> drawdown.maxDrawdown,
              maxDrawdownPct |-> drawdown.pct,
              finalValue |-> final_value,
              initialValue |-> init,
              sell_prices |-> sell_prices,
              tradeCount |-> Len(sell_prices),
              wonTrades |-> Len(wins),
              lostTrades |-> Len(losses)]

\* win_trades of one symbol: its sells whose price is above their own
\* signal_price
WinTrades(symbol_trades) ==
    SelectSeq(symbol_trades, LAMBDA t : t.type = "sell" /\ t.price > t.signal_price)

RECURSIVE PerSymbolMetrics(_, _, _)
\* per_symbol_metrics: one entry per key of data_map that has trades.  winRate
\* is len(win_trades) / len(sells) * 100, kept as the fraction num / den
\* (0 when the symbol has no sell)
PerSymbolMetrics(order, ledger, init) ==
    IF order = <<>> THEN <<>>
    ELSE LET symbol == Head(order)
             symbol_trades == SelectSeq(ledger, LAMBDA t : t.symbol = symbol)
             sells == SelectSeq(symbol_trades, LAMBDA t : t.type = "sell")
             total_pnl == SumSeq([i \in DOMAIN symbol_trades |->
                                     IF symbol_trades[i].type = "sell"
                                     THEN symbol_trades[i].value
                                     ELSE 0 - symbol_trades[i].value])
             entry == [symbol |-> symbol,
                       totalReturn |-> total_pnl,
                       tradeCount |-> Len(symbol_trades),
                       contributionToPortfolio |-> total_pnl,
                       winRate |-> IF Len(sells) > 0
                                   THEN [num |-> Len(WinTrades(symbol_trades)) * 100,
                                         den |-> Len(sells)]
                                   ELSE [num |-> 0, den |-> 1]]
         IN  (IF symbol_trades = <<>> THEN <<>> ELSE <<entry>>)
             \o PerSymbolMetrics(Tail(order), ledger, init)

----------------------------------------------------------------------------
(* External datasets: load_and_merge_external_datasets *)

MaxExtRows == 2

Timestamp(d, t) == [day |-> d, time |-> t]

\* DatetimeIndex.normalize: the time of day is set to midnight
Normalize(ts) == Timestamp(ts.day, 0)

\* the value of an external column in a row the join found no match for
NaN == "NaN"

RECURSIVE JoinLeft(_, _)
\* result_df.join(ext_df, how='left') on the index: in the order of the left
\* index, each left row is paired with every right row of the same key, and
\* kept once with missing values when there is none
JoinLeft(left, right) ==
    IF left = <<>> THEN <<>>
    ELSE LET key == Head(left)
             matches == SelectSeq(right, LAMBDA r : r.date = key)
         IN  (IF matches = <<>> THEN <<[date |-> key, value |-> NaN]>>
              ELSE [i \in DOMAIN matches |-> [date |-> key, value |-> matches[i].value]])
             \o JoinLeft(Tail(left), right)

\* one pass of the loop over external_datasets_config: an empty external
\* dataset is skipped and the copy of main_df is returned as it is; otherwise
\* both indices are normalized and the external columns are joined
LoadAndMergeExternalDatasets(main, ext) ==
    IF ext = <<>> THEN [i \in DOMAIN main |-> [date |-> main[i]]]
    ELSE JoinLeft([i \in DOMAIN main |-> Normalize(main[i])],
                  [i \in DOMAIN ext |-> [date |-> Normalize(ext[i].date),
                                          value |-> ext[i].value]])

\* external_datasets_config is empty: nothing is merged
NoExternalDatasets == main_df = <<>> /\ ext_df = <<>> /\ result_df = <<>>

----------------------------------------------------------------------------
(* The runs *)

TypeOfSignal(symbols, dates) ==
    [date : dates, symbol : symbols, type : SignalTypes,
     amount : SignalAmounts, execution : ExecutionModes]

\* every list of at most n signals over an alphabet
ListsOf(alphabet, n) == UNION {[1 .. k -> alphabet] : k \in 0 .. n}

NoConstraints == [maxPositions |-> 0, reserveCash |-> 0]

\* the work of the k-th date (none past the last date)
TasksAt(m, dm, sigs, dates, k) ==
    IF k > Len(dates) THEN <<>>
    ELSE IF m = "single" THEN ManualTasks(dm, sigs, k)
    ELSE PortfolioTasks(dm, sigs, dates, k)

\* the state both runs start the day loop in
Start ==
    /\ all_dates = Calendar(mode, data_map)
    /\ cash = initial_cash
    /\ shares = 0
    /\ positions = <<>>
    /\ trades = <<>>
    /\ equity_curve = <<>>
    /\ day = 1
    /\ pending = TasksAt(mode, data_map, signals, all_dates, 1)
    /\ status = "running"
    /\ skipped_count = 0
    /\ metrics = EmptyMetrics
    /\ per_symbol_metrics = <<>>
    /\ NoExternalDatasets

InitSingle ==
    /\ mode = "single"
    /\ data_map \in [{SingleSymbol} -> SeriesChoices]
    /\ signals \in ListsOf(TypeOfSignal({SingleSymbol}, SignalDates), MaxSignals)
    /\ initial_cash \in InitialCashes
    /\ commission \in Commissions
    /\ constraints = NoConstraints
    /\ Start

InitPortfolio ==
    /\ mode = "portfolio"
    /\ data_map \in {DataMixed}
    /\ signals \in ListsOf(TypeOfSignal(Symbols, SignalDates), MaxSignals)
    /\ initial_cash \in InitialCashes
    /\ commission \in Commissions
    /\ constraints = NoConstraints
    /\ Start

Init == InitSingle \/ InitPortfolio

ConstraintChoices ==
    {[maxPositions |-> 1, reserveCash |-> 0], [maxPositions |-> 0, reserveCash |-> 50],
     [maxPositions |-> 1, reserveCash |-> 50]}

\* portfolio runs with one or both constraints set
InitConstraints ==
    /\ mode = "portfolio"
    /\ data_map \in {DataMixed}
    /\ signals \in ListsOf(TypeOfSignal(Symbols, EarlyDates), MaxSignals)
    /\ initial_cash \in InitialCashes
    /\ commission \in Commissions
    /\ constraints \in ConstraintChoices
    /\ Start

\* single-symbol runs around the scenario of three bars, 1000 of cash and no
\* commission
ScenarioSignals ==
    [date : SignalDates, symbol : {SingleSymbol}, type : SignalTypes,
     amount : {10000, -500}, execution : ExecutionModes]

InitScenario ==
    /\ mode = "single"
    /\ data_map \in {[A |-> ScenarioBars], [A |-> ScenarioBadBars]}
    /\ signals \in ListsOf(ScenarioSignals, MaxSignals)
    /\ initial_cash = 100000
    /\ commission = 0
    /\ constraints = NoConstraints
    /\ Start

\* portfolio runs of one-share orders at the close, long enough for a buy of
\* one symbol to precede a buy and a sell of the other
LedgerSignals ==
    [date : SignalDates, symbol : Symbols, type : {"a"}, amount : {100, -100},
     execution : {"close"}]

InitLedger ==
    /\ mode = "portfolio"
    /\ data_map \in {DataClean, DataMixed}
    /\ signals \in ListsOf(LedgerSignals, MaxLedgerSignals)
    /\ initial_cash \in InitialCashes
    /\ commission \in Commissions
    /\ constraints = NoConstraints
    /\ Start

MaxValuationSignals == 2

\* a series that stops before the calendar does, and one that starts after it
SeriesStops == <<Bar(1, 1, 1), Bar(2, 2, 2)>>
SeriesLate == <<Bar(2, 1, 2)>>
DataStops == [A |-> SeriesFull, B |-> SeriesStops]
DataLate == [A |-> SeriesFull, B |-> SeriesLate]

ValuationSignals ==
    [date : SignalDates, symbol : Symbols, type : {"a"}, amount : {200, -100},
     execution : ExecutionModes]

\* portfolio runs over symbols whose bars do not cover the whole calendar
InitValuation ==
    /\ mode = "portfolio"
    /\ data_map \in {DataStops, DataLate, DataMixed}
    /\ signals \in ListsOf(ValuationSignals, MaxValuationSignals)
    /\ initial_cash \in InitialCashes
    /\ commission \in Commissions
    /\ constraints = NoConstraints
    /\ Start

\* a series whose last bar closes at 0, before the calendar ends
SeriesZeroThenStops == <<Bar(1, 1, 1), Bar(2, 1, 0)>>
DataZeroThenStops == [A |-> SeriesFull, B |-> SeriesZeroThenStops]

\* portfolio runs over a symbol that starts late and one whose bars stop
\* after a close of 0
InitUncovered ==
    /\ mode = "portfolio"
    /\ data_map \in {DataLate, DataZeroThenStops}
    /\ signals \in ListsOf(ValuationSignals, MaxValuationSignals)
    /\ initial_cash \in InitialCashes
    /\ commission \in Commissions
    /\ constraints = NoConstraints
    /\ Start

MaxEquitySignals == 2

EquityCommissions == {0, 10}

EquitySignals(symbols) ==
    [date : SignalDates, symbol : symbols, type : {"a"}, amount : {200, -100},
     execution : ExecutionModes]

\* runs with and without commission, in both modes
InitEquitySingle ==
    /\ mode = "single"
    /\ data_map \in {[A |-> SeriesFull], [A |-> SeriesZeroClose]}
    /\ signals \in ListsOf(EquitySignals({SingleSymbol}), MaxEquitySignals)
    /\ initial_cash \in InitialCashes
    /\ commission \in EquityCommissions
    /\ constraints = NoConstraints
    /\ Start

InitEquityPortfolio ==
    /\ mode = "portfolio"
    /\ data_map \in {DataStops, DataMixed}
    /\ signals \in ListsOf(EquitySignals(Symbols), MaxEquitySignals)
    /\ initial_cash \in InitialCashes
    /\ commission \in EquityCommissions
    /\ constraints = NoConstraints
    /\ Start

InitEquity == InitEquitySingle \/ InitEquityPortfolio

\* runs of 'v' buys only, in both modes, over several amounts of cash, without
\* constraints and with reserveCash set
SizingSignals(symbols) ==
    [date : EarlyDates, symbol : symbols, type : {"v"}, amount : {300, 500},
     execution : ExecutionModes]

SizingCashes == {400, 700, 1000}

InitSizingSingle ==
    /\ mode = "single"
    /\ data_map \in {[A |-> SeriesFull], [A |-> SeriesZeroClose]}
    /\ signals \in ListsOf(SizingSignals({SingleSymbol}), MaxSizingSignals)
    /\ initial_cash \in SizingCashes
    /\ commission \in Commissions
    /\ constraints = NoConstraints
    /\ Start

InitSizingPortfolio ==
    /\ mode = "portfolio"
    /\ data_map \in {DataMixed}
    /\ signals \in ListsOf(SizingSignals(Symbols), MaxSizingSignals)
    /\ initial_cash \in SizingCashes
    /\ commission \in Commissions
    /\ constraints \in {NoConstraints, [maxPositions |-> 0, reserveCash |-> 50],
                        [maxPositions |-> 1, reserveCash |-> 50]}
    /\ Start

InitSizing == InitSizingSingle \/ InitSizingPortfolio

\* runs whose signals include sizes that come to nothing: amount 0, a notional
\* below one share's price, half a share; in both modes, in portfolio mode
\* without constraints and with both constraints set
RejectSignals(symbols) ==
    [date : EarlyDates, symbol : symbols, type : SignalTypes,
     amount : {0, 50, -200, 300}, execution : {"close"}]

InitRejectsSingle ==
    /\ mode = "single"
    /\ data_map \in {[A |-> SeriesFull], [A |-> SeriesZeroClose]}
    /\ signals \in ListsOf(RejectSignals({SingleSymbol}), MaxRejectSignals)
    /\ initial_cash = 500
    /\ commission \in Commissions
    /\ constraints = NoConstraints
    /\ Start

InitRejectsPortfolio ==
    /\ mode = "portfolio"
    /\ data_map \in {DataMixed}
    /\ signals \in ListsOf(RejectSignals(Symbols), MaxRejectSignals)
    /\ initial_cash = 500
    /\ commission \in Commissions
    /\ constraints \in {NoConstraints, [maxPositions |-> 1, reserveCash |-> 50]}
    /\ Start

InitRejects == InitRejectsSingle \/ InitRejectsPortfolio

\* mutant of SignalsValid: only the type of a signal is validated
SignalsValidTypeOnly(sigs, m) ==
    \A i \in DOMAIN sigs : "type" \in DOMAIN sigs[i] /\ sigs[i].type \in {"v", "a"}

\* main: the validation of the list the strategy returned, ahead of
\* portfolio_backtest (m = "portfolio") or manual_backtest (m = "single")
SignalsValid(sigs, m) ==
    \A i \in DOMAIN sigs :
        LET signal == sigs[i]
        IN  /\ m = "portfolio" => "symbol" \in DOMAIN signal
            /\ "date" \in DOMAIN signal
            /\ "type" \in DOMAIN signal /\ signal.type \in {"v", "a"}
            /\ "amount" \in DOMAIN signal
            /\ "execution" \in DOMAIN signal =>
                  signal.execution \in {"close", "next_open"}

\* a symbol with no price series in data_map
UnknownSymbol == "C"

\* what a strategy may return: well-formed signals, an unknown type, an
\* unknown execution, no execution field, no amount field
RawSignals(symbols) ==
    [date : EarlyDates, symbol : symbols, type : {"a", "x"}, amount : {300},
     execution : {"close", "next_open", "open"}]
    \cup [date : EarlyDates, symbol : symbols, type : {"a"}, amount : {300}]
    \cup [date : EarlyDates, symbol : symbols, type : {"a"}, execution : {"close"}]

\* main, after the strategy has returned its signals and before they are
\* validated
InitBoundary ==
    /\ \/ /\ mode = "single"
          /\ data_map \in {[A |-> SeriesFull], [A |-> SeriesZeroClose]}
          /\ signals \in ListsOf(RawSignals({SingleSymbol}), MaxBoundarySignals)
       \/ /\ mode = "portfolio"
          /\ data_map \in {DataMixed}
          /\ signals \in ListsOf(RawSignals({SingleSymbol, UnknownSymbol}),
                                 MaxBoundarySignals)
    /\ initial_cash \in InitialCashes
    /\ commission \in Commissions
    /\ constraints = NoConstraints
    /\ all_dates = Calendar(mode, data_map)
    /\ cash = initial_cash
    /\ shares = 0
    /\ positions = <<>>
    /\ trades = <<>>
    /\ equity_curve = <<>>
    /\ day = 1
    /\ pending = <<>>
    /\ status = "validating"
    /\ skipped_count = 0
    /\ metrics = EmptyMetrics
    /\ per_symbol_metrics = <<>>
    /\ NoExternalDatasets

\* main: every signal passes the validation and the backtest is started
MainAccept ==
    /\ status = "validating"
    /\ SignalsValid(signals, mode) = TRUE
    /\ status' = "running"
    /\ pending' = TasksAt(mode, data_map, signals, all_dates, 1)
    /\ UNCHANGED <<inputs, datasets, cash, shares, positions, trades, equity_curve, day,
                   skipped_count, metrics, per_symbol_metrics>>

\* main: a signal fails the validation and ValueError ends the run
MainReject ==
    /\ status = "validating"
    /\ SignalsValid(signals, mode) = FALSE
    /\ status' = "rejected"
    /\ UNCHANGED <<inputs, datasets, cash, shares, positions, trades, equity_curve, day, pending,
                   skipped_count, metrics, per_symbol_metrics>>

\* single-symbol runs of one-share orders over a series of one bar and over a
\* series that falls, rises above the start and falls again
MetricSignals ==
    [date : SignalDates, symbol : {SingleSymbol}, type : {"a"}, amount : {100, -100},
     execution : {"close"}]

InitMetrics ==
    /\ mode = "single"
    /\ data_map \in {[A |-> SeriesOneBar], [A |-> SeriesSwing], [A |-> SeriesZeroOpen]}
    /\ signals \in ListsOf(MetricSignals, MaxMetricSignals)
    /\ initial_cash \in {0} \cup InitialCashes
    /\ commission \in Commissions
    /\ constraints = NoConstraints
    /\ Start

MaxPairingSignals == 3

PairingSignals ==
    [date : {1, 2, 3, 4}, symbol : {SingleSymbol}, type : {"a"}, amount : {200, -100},
     execution : {"close"}]

PairingCashes == {3000}

\* single-symbol runs of buys of 2 shares and sells of 1 share over four bars
InitPairing ==
    /\ mode = "single"
    /\ data_map \in {[A |-> SeriesSwing], [A |-> SeriesZeroOpen]}
    /\ signals \in ListsOf(PairingSignals, MaxPairingSignals)
    /\ initial_cash \in PairingCashes
    /\ commission \in Commissions
    /\ constraints = NoConstraints
    /\ Start

Running == status = "running" /\ day <= Len(all_dates)

\* manual_backtest: one execute_trade call of the day
ManualTrade ==
    /\ mode = "single" /\ Running
    /\ pending # <<>>
    /\ Head(pending).kind = "trade"
    /\ LET t == Head(pending)
           r == ManualExecuteTrade(t.signal, t.execution_date, t.execution_price,
                                   t.signal_date, t.signal_price, t.execution_mode,
                                   cash, shares, commission)
       IN  /\ cash' = r.cash
           /\ shares' = r.shares
           /\ trades' = trades \o r.fill
    /\ pending' = Tail(pending)
    /\ UNCHANGED <<inputs, datasets, positions, equity_curve, day, status, skipped_count, metrics, per_symbol_metrics>>

\* manual_backtest: the day's close or open is not positive
ManualDataError ==
    /\ mode = "single" /\ Running
    /\ pending # <<>>
    /\ Head(pending).kind = "raise"
    /\ status' = "error"
    /\ UNCHANGED <<inputs, datasets, cash, shares, positions, trades, equity_curve, day, pending,
                   skipped_count, metrics, per_symbol_metrics>>

\* manual_backtest: record the day's portfolio value and advance
ManualEndOfDay ==
    /\ mode = "single" /\ Running
    /\ pending = <<>>
    /\ LET row == data_map[SingleSymbol][day]
       IN  equity_curve' = Append(equity_curve,
                                  ManualSnapshot(row.date, row.close, cash, shares))
    /\ day' = day + 1
    /\ pending' = TasksAt(mode, data_map, signals, all_dates, day + 1)
    /\ UNCHANGED <<inputs, datasets, cash, shares, positions, trades, status, skipped_count,
                   metrics, per_symbol_metrics>>

\* manual_backtest after the loop: the skipped last-day signals are counted
\* for the warning, the metrics are computed
ManualFinish ==
    /\ mode = "single" /\ status = "running" /\ day > Len(all_dates)
    /\ skipped_count' = Len(ManualSignalsFor(signals, all_dates[Len(all_dates)], "next_open"))
    /\ metrics' = CalculateMetrics(equity_curve, trades, initial_cash)
    /\ status' = "finished"
    /\ UNCHANGED <<inputs, datasets, cash, shares, positions, trades, equity_curve, day, pending,
                   per_symbol_metrics>>

\* portfolio_backtest: one execute_trade call of the day
PortfolioTrade ==
    /\ mode = "portfolio" /\ Running
    /\ pending # <<>>
    /\ Head(pending).kind = "trade"
    /\ LET t == Head(pending)
           r == PortfolioExecuteTrade(t.signal, t.symbol, t.execution_date,
                                      t.execution_price, t.signal_date, t.signal_price,
                                      t.execution_mode, cash, positions, initial_cash,
                                      commission, constraints)
       IN  /\ cash' = r.cash
           /\ positions' = r.positions
           /\ trades' = trades \o r.fill
           /\ status' = IF r.raised THEN "error" ELSE status
    /\ pending' = Tail(pending)
    /\ UNCHANGED <<inputs, datasets, shares, equity_curve, day, skipped_count, metrics, per_symbol_metrics>>

\* portfolio_backtest: an execution price is not positive
PortfolioDataError ==
    /\ mode = "portfolio" /\ Running
    /\ pending # <<>>
    /\ Head(pending).kind = "raise"
    /\ status' = "error"
    /\ UNCHANGED <<inputs, datasets, cash, shares, positions, trades, equity_curve, day, pending,
                   skipped_count, metrics, per_symbol_metrics>>

\* portfolio_backtest: the valuation loop raises on a held symbol's price
PortfolioValuationError ==
    /\ mode = "portfolio" /\ Running
    /\ pending = <<>>
    /\ ValuationRaises(data_map, positions, all_dates[day]) = TRUE
    /\ status' = "error"
    /\ UNCHANGED <<inputs, datasets, cash, shares, positions, trades, equity_curve, day, pending,
                   skipped_count, metrics, per_symbol_metrics>>

\* portfolio_backtest: value the positions, append the snapshot, validate it
\* and advance
PortfolioEndOfDay ==
    /\ mode = "portfolio" /\ Running
    /\ pending = <<>>
    /\ ValuationRaises(data_map, positions, all_dates[day]) = FALSE
    /\ LET snap == PortfolioSnapshot(data_map, positions, cash, all_dates[day])
       IN  /\ equity_curve' = Append(equity_curve, snap)
           /\ status' = IF SnapshotRaises(snap) THEN "error" ELSE status
           /\ day' = IF SnapshotRaises(snap) THEN day ELSE day + 1
           /\ pending' = IF SnapshotRaises(snap) THEN pending
                         ELSE TasksAt(mode, data_map, signals, all_dates, day + 1)
    /\ UNCHANGED <<inputs, datasets, cash, shares, positions, trades, skipped_count, metrics, per_symbol_metrics>>

\* portfolio_backtest after the loop: the metrics are computed; the last-day
\* next_open signals are left in next_day_signals and nothing counts them
PortfolioFinish ==
    /\ mode = "portfolio" /\ status = "running" /\ day > Len(all_dates)
    /\ per_symbol_metrics' = PerSymbolMetrics(KeysOf(data_map), trades, initial_cash)
    /\ metrics' = CalculateMetrics(equity_curve, trades, initial_cash)
    /\ status' = "finished"
    /\ UNCHANGED <<inputs, datasets, cash, shares, positions, trades, equity_curve, day, pending,
                   skipped_count>>

\* main datasets: date-indexed, sorted, one row per date
MainFrames ==
    {<<Timestamp(1, 0), Timestamp(2, 0)>>,
     <<Timestamp(1, 1), Timestamp(2, 1), Timestamp(3, 1)>>,
     <<Timestamp(2, 0)>>}

ExtDays == 1 .. 4
ExtTimes == {0, 1}
ExtValues == {5}

\* main has loaded and cleaned the main dataset and an external dataset is
\* configured; the backtest has not started
InitMerge ==
    /\ mode = "single"
    /\ data_map = [A |-> SeriesOneBar]
    /\ signals = <<>>
    /\ initial_cash \in InitialCashes
    /\ commission \in Commissions
    /\ constraints = NoConstraints
    /\ all_dates = Calendar(mode, data_map)
    /\ cash = initial_cash
    /\ shares = 0
    /\ positions = <<>>
    /\ trades = <<>>
    /\ equity_curve = <<>>
    /\ day = 1
    /\ pending = <<>>
    /\ status = "merging"
    /\ skipped_count = 0
    /\ metrics = EmptyMetrics
    /\ per_symbol_metrics = <<>>
    /\ main_df \in MainFrames
    /\ ext_df \in ListsOf([date : {Timestamp(d, t) : d \in ExtDays, t \in ExtTimes},
                            value : ExtValues], MaxExtRows)
    /\ result_df = <<>>

\* main: df = load_and_merge_external_datasets(df, external_datasets_config)
MergeExternal ==
    /\ status = "merging"
    /\ result_df' = LoadAndMergeExternalDatasets(main_df, ext_df)
    /\ status' = "merged"
    /\ UNCHANGED <<inputs, main_df, ext_df, cash, shares, positions, trades, equity_curve,
                   day, pending, skipped_count, metrics, per_symbol_metrics>>

NextSingle == ManualTrade \/ ManualDataError \/ ManualEndOfDay \/ ManualFinish

NextPortfolio ==
    \/ PortfolioTrade
    \/ PortfolioDataError
    \/ PortfolioValuationError
    \/ PortfolioEndOfDay
    \/ PortfolioFinish

Next == NextSingle \/ NextPortfolio

Spec == Init /\ [][Next]_vars

SpecConstraints == InitConstraints /\ [][NextPortfolio]_vars

SpecScenario == InitScenario /\ [][NextSingle]_vars

SpecLedger == InitLedger /\ [][NextPortfolio]_vars

SpecSizing == InitSizing /\ [][Next]_vars

SpecRejects == InitRejects /\ [][Next]_vars

SpecMetrics == InitMetrics /\ [][NextSingle]_vars

NextBoundary == MainAccept \/ MainReject \/ Next

SpecBoundary == InitBoundary /\ [][NextBoundary]_vars

SpecMerge == InitMerge /\ [][MergeExternal]_vars

SpecValuation == InitValuation /\ [][NextPortfolio]_vars

SpecPairing == InitPairing /\ [][NextSingle]_vars

SpecEquity == InitEquity /\ [][Next]_vars

SpecUncovered == InitUncovered /\ [][NextPortfolio]_vars

\* the loops run to their end: a step that can be taken is taken
SpecRejectsLive == InitRejects /\ [][Next]_vars /\ WF_vars(Next)

----------------------------------------------------------------------------
(* Properties *)

\* the symbol of a fill (manual_backtest fills carry none)
FillSymbol(t) == IF "symbol" \in DOMAIN t THEN t.symbol ELSE SingleSymbol

RECURSIVE CashAfter(_, _)
\* the cash the ledger accounts for, starting from c
CashAfter(ledger, c) ==
    IF ledger = <<>> THEN c
    ELSE LET t == Head(ledger)
         IN  CashAfter(Tail(ledger),
                       IF t.type = "buy" THEN c - (t.value + t.commission)
                       ELSE c + (t.value - t.commission))

RECURSIVE NetShares(_, _)
\* buys minus sells of one symbol in a ledger
NetShares(ledger, symbol) ==
    IF ledger = <<>> THEN 0
    ELSE LET t == Head(ledger)
         IN  (IF FillSymbol(t) # symbol THEN 0
              ELSE IF t.type = "buy" THEN t.size ELSE -t.size)
             + NetShares(Tail(ledger), symbol)

\* C1: in both modes cash is never negative: not in any state (each state
\* follows one execute_trade call), not in any snapshot, and not after any
\* fill of the ledger (a buy is applied only when cash covers cost and
\* commission)
C1_CashNeverNegative ==
    /\ cash >= 0
    /\ \A i \in DOMAIN equity_curve : equity_curve[i].cash >= 0
    /\ \A k \in 0 .. Len(trades) : CashAfter(SubSeq(trades, 1, k), initial_cash) >= 0

\* C1 witness: two buys on date 2 at the close, the first filled and the
\* second refused because the cash left does not cover it
C1_Witness ==
    /\ mode = "single" /\ status = "finished"
    /\ Len(signals) = 2
    /\ \A i \in DOMAIN signals :
          signals[i].amount > 0 /\ signals[i].date = 2 /\ signals[i].execution = "close"
    /\ Len(trades) = 1 /\ trades[1].type = "buy"
    /\ cash < initial_cash

\* C2: no shorting in either mode: share counts are never negative (state and
\* snapshots), after every fill of the ledger each symbol's buys minus sells
\* is >= 0 (a sell never exceeds what is held), and every recorded fill has
\* size >= 1 (a sell with nothing held records no fill)
C2_NoShorting ==
    /\ shares >= 0
    /\ \A s \in DOMAIN positions : positions[s] >= 0
    /\ \A i \in DOMAIN equity_curve :
          IF mode = "single" THEN equity_curve[i].shares >= 0
          ELSE \A s \in DOMAIN equity_curve[i].positions :
                  equity_curve[i].positions[s] >= 0
    /\ \A k \in 1 .. Len(trades) :
          /\ trades[k].size >= 1
          /\ NetShares(SubSeq(trades, 1, k), FillSymbol(trades[k])) >= 0

\* C2 witness: a sell that asked for 2 shares (amount -200 at price 1) was
\* filled with the single share held
C2_Witness ==
    \E k \in DOMAIN trades :
        /\ trades[k].type = "sell" /\ trades[k].price = 1 /\ trades[k].size = 1
        /\ NetShares(SubSeq(trades, 1, k), FillSymbol(trades[k])) = 0

\* C3: in every snapshot of every run, value = cash + the stock values of the
\* same snapshot, within 0.01
C3_Reconciliation ==
    \A i \in DOMAIN equity_curve :
        LET e == equity_curve[i]
        IN  IF mode = "single"
            THEN Abs(e.cash + e.stock_value - e.value) <= 1
            ELSE Abs(e.cash + SumFun(e.stock_values) - e.value) <= 1

\* C3 witness: a portfolio snapshot on a date on which a held symbol has no
\* bar, valued at its last known close
C3_Witness ==
    /\ mode = "portfolio"
    /\ \E i \in DOMAIN equity_curve : \E s \in DOMAIN equity_curve[i].positions :
          /\ equity_curve[i].positions[s] > 0
          /\ equity_curve[i].date \notin BarDates(data_map[s])
          /\ equity_curve[i].stock_values[s] > 0

\* the next_open signals keyed to the last date of the calendar
LastDaySignals ==
    SelectSeq(signals, LAMBDA g : /\ g.date = all_dates[Len(all_dates)]
                                  /\ Bucket(g) = "next_open"
                                  /\ g.symbol \in DOMAIN data_map)

\* C4: a next_open signal keyed to the last date is never filled, and a
\* finished run reports exactly one skipped signal for each of them
C4_SkipAccounting ==
    /\ \A k \in DOMAIN trades :
          ~(trades[k].signal_date = all_dates[Len(all_dates)]
            /\ trades[k].execution_mode = "next_open")
    /\ status = "finished" => skipped_count = Len(LastDaySignals)

\* the prices manual_backtest used on the date of its i-th snapshot were
\* positive: the close if a close signal was executed or shares are valued,
\* the open if a next_open signal of the previous date was executed
ManualPricesPositive(i) ==
    LET df == data_map[SingleSymbol]
        row == df[i]
    IN  /\ ManualSignalsFor(signals, row.date, "close") # <<>> => row.close > 0
        /\ (i > 1 /\ ManualSignalsFor(signals, df[i - 1].date, "next_open") # <<>>)
              => row.open > 0
        /\ equity_curve[i].shares > 0 =>
              /\ row.close > 0
              /\ equity_curve[i].stock_value = equity_curve[i].shares * row.close * 100

\* the same for portfolio_backtest and one symbol; a held symbol without a bar
\* on the date was valued at a positive last known close, never at zero
PortfolioPricesPositive(i, s) ==
    LET df == data_map[s]
        d == all_dates[i]
        e == equity_curve[i]
        held == Held(e.positions, s) > 0
        past == {x \in BarDates(df) : x < d}
    IN  IF d \in BarDates(df)
        THEN /\ PortfolioSignalsFor(signals, data_map, d, s, "close") # <<>>
                   => BarOn(df, d).close > 0
             /\ (i > 1 /\ PortfolioSignalsFor(signals, data_map, all_dates[i - 1], s,
                                               "next_open") # <<>>)
                   => BarOn(df, d).open > 0
             /\ held => /\ BarOn(df, d).close > 0
                        /\ e.stock_values[s] = e.positions[s] * BarOn(df, d).close * 100
        ELSE held => /\ past # {}
                     /\ s \in DOMAIN e.stock_values
                     /\ e.stock_values[s] > 0

\* C7: a non-positive price that is used aborts the run: no fill is recorded at
\* a price <= 0, a snapshot exists for a date only if every price used on that
\* date to execute a signal or to value a held position was positive (no held
\* position is valued at zero), and a run finishes only with a snapshot of
\* every date
C7_InvalidPriceFatal ==
    /\ \A k \in DOMAIN trades : trades[k].price > 0
    /\ \A i \in DOMAIN equity_curve :
          /\ equity_curve[i].date = all_dates[i]
          /\ IF mode = "single" THEN ManualPricesPositive(i)
             ELSE \A s \in DOMAIN data_map : PortfolioPricesPositive(i, s)
    /\ status = "finished" => Len(equity_curve) = Len(all_dates)

\* C7 witness: a portfolio run aborted while holding a symbol whose close of
\* the date is 0, with no snapshot of that date
C7_Witness ==
    /\ mode = "portfolio" /\ status = "error"
    /\ Len(equity_curve) = day - 1
    /\ \E s \in DOMAIN positions :
          /\ positions[s] > 0
          /\ all_dates[day] \in BarDates(data_map[s])
          /\ BarOn(data_map[s], all_dates[day]).close <= 0

\* C5: with reserveCash set, cash never falls below initial_cash *
\* reserveCash / 100, in any state and any snapshot; and the scenario: 1000 of
\* cash, reserve 50, no commission, a buy of 800 at price 10 is filled with 50
\* shares and leaves 500
C5_ReserveFloor ==
    /\ constraints.reserveCash # 0 =>
          /\ cash * 100 >= initial_cash * constraints.reserveCash
          /\ \A i \in DOMAIN equity_curve :
                equity_curve[i].cash * 100 >= initial_cash * constraints.reserveCash
    /\ LET r == PortfolioExecuteTrade(
                    [date |-> 1, symbol |-> "A", type |-> "v", amount |-> 80000,
                     execution |-> "close"],
                    "A", 1, 10, 1, 10, "close", 100000, <<>>, 100000, 0,
                    [maxPositions |-> 0, reserveCash |-> 50])
       IN  /\ r.cash = 50000
           /\ Len(r.fill) = 1
           /\ r.fill[1].size = 50

\* C5 witness: a single buy of 3 shares at price 2 (660 with commission) was
\* shrunk to the 1 share that keeps cash at or above the reserve of 350
C5_Witness ==
    /\ constraints.reserveCash = 50
    /\ Len(signals) = 1 /\ signals[1].type = "a" /\ signals[1].amount = 300
    /\ Len(trades) = 1 /\ trades[1].price = 2 /\ trades[1].size = 1
    /\ cash = 480

\* C6: with maxPositions = N >= 1, the number of symbols held never exceeds N,
\* in any state and any snapshot
C6_MaxPositions ==
    constraints.maxPositions # 0 =>
        /\ PositionCount(positions) <= constraints.maxPositions
        /\ \A i \in DOMAIN equity_curve :
              PositionCount(equity_curve[i].positions) <= constraints.maxPositions

\* C6 witness: with the cap at 1 and no reserve, buys of A and of B at the
\* close of date 1: A is filled, the buy that would open B is not
C6_Witness ==
    /\ constraints = [maxPositions |-> 1, reserveCash |-> 0]
    /\ Len(signals) = 2
    /\ \A i \in DOMAIN signals :
          signals[i].amount > 0 /\ signals[i].date = 1 /\ signals[i].execution = "close"
    /\ signals[1].symbol # signals[2].symbol
    /\ day = 2
    /\ Len(trades) = 1 /\ trades[1].symbol = "A"
    /\ PositionCount(positions) = 1

\* the scenario's input: the three bars and one 'v' buy of 100 on date 1 at
\* the close
IsScenario ==
    /\ data_map[SingleSymbol] = ScenarioBars
    /\ signals = <<[date |-> 1, symbol |-> SingleSymbol, type |-> "v",
                    amount |-> 10000, execution |-> "close"]>>

\* C8: the single-symbol scenario ends with exactly one fill, 10 shares at
\* price 10 on date 1, cash 900 in every snapshot and a total equity of 1030
\* in the snapshot of date 3
C8_Scenario ==
    (IsScenario /\ status = "finished") =>
        /\ Len(trades) = 1
        /\ trades[1].type = "buy" /\ trades[1].size = 10 /\ trades[1].price = 10
        /\ trades[1].execution_date = 1 /\ trades[1].signal_date = 1
        /\ Len(equity_curve) = 3
        /\ \A i \in DOMAIN equity_curve : equity_curve[i].cash = 90000
        /\ equity_curve[3].date = 3 /\ equity_curve[3].value = 103000

\* C8 witness: the scenario has run to its end
C8_Witness == IsScenario /\ status = "finished" /\ cash = 90000 /\ shares = 10

\* the size an execute_trade result filled (0 when it recorded no fill)
FilledSize(r) == IF r.fill = NoFill THEN 0 ELSE r.fill[1].size

ProbeCommissions == {0, 10, 50}

\* the next step is the execute_trade call of a 'v' buy
NotionalBuyPending ==
    /\ status = "running" /\ pending # <<>>
    /\ Head(pending).kind = "trade"
    /\ Head(pending).signal.type = "v"
    /\ Head(pending).signal.amount > 0

\* the size that call fills in the current state under commission c
SizeAt(c) ==
    LET t == Head(pending)
    IN  IF mode = "single"
        THEN FilledSize(ManualExecuteTrade(t.signal, t.execution_date, t.execution_price,
                                           t.signal_date, t.signal_price,
                                           t.execution_mode, cash, shares, c))
        ELSE FilledSize(PortfolioExecuteTrade(t.signal, t.symbol, t.execution_date,
                                              t.execution_price, t.signal_date,
                                              t.signal_price, t.execution_mode, cash,
                                              positions, initial_cash, c, constraints))

\* C9: whenever a 'v' buy is about to be executed, with the signal, the price,
\* the cash, the positions and the constraints of that moment, a higher
\* commission rate never fills more shares than a lower one (manual_backtest;
\* portfolio_backtest without constraints and with reserveCash set)
C9_CommissionMonotone ==
    NotionalBuyPending =>
        \A c1 \in ProbeCommissions, c2 \in ProbeCommissions :
            c1 < c2 => SizeAt(c2) <= SizeAt(c1)

\* C9 witness: with the reserve set, a 'v' buy that is shrunk under commission
\* 0 and shrunk further, but not to nothing, under commission 50
C9_Witness ==
    /\ NotionalBuyPending
    /\ constraints.reserveCash # 0
    /\ SizeAt(50) > 0
    /\ SizeAt(50) < SizeAt(0)
    /\ SizeAt(0) < DesiredShares("v", Head(pending).signal.amount,
                                 Head(pending).execution_price)

\* the fills of one symbol, in ledger order
FillsOf(ledger, symbol) == SelectSeq(ledger, LAMBDA t : FillSymbol(t) = symbol)

\* C10: the buy prices paired with the sells of a symbol do not depend on the
\* other symbols' fills; in particular, when every sell of the ledger is of one
\* symbol S, the pairs computed from the whole ledger are the pairs computed
\* from S's fills alone
C10_PairingPerSymbol ==
    (status = "finished" /\ metrics.computed) =>
        \A s \in Symbols :
            (\A k \in DOMAIN trades : trades[k].type = "sell" => trades[k].symbol = s)
                => metrics.sell_prices = PairTrades(FillsOf(trades, s), <<>>)

\* what one step appends to the ledger (empty when it appends nothing)
NewFills == SubSeq(trades', Len(trades) + 1, Len(trades'))

\* one step of the day loop keeps the phases of the day in order
DayPhaseStep ==
    /\ \A n \in DOMAIN NewFills :
          LET f == NewFills[n]
          IN  /\ equity_curve' = equity_curve
              /\ f.execution_date = all_dates[day]
              /\ \A i \in DOMAIN equity_curve : equity_curve[i].date < f.execution_date
              /\ \A i \in DOMAIN trades :
                    /\ trades[i].execution_date <= f.execution_date
                    /\ (trades[i].execution_date = f.execution_date
                        /\ f.execution_mode = "next_open")
                           => trades[i].execution_mode = "next_open"
              /\ f.execution_mode = "next_open" =>
                    day > 1 /\ f.signal_date = all_dates[day - 1]
              /\ f.execution_mode = "close" => f.signal_date = f.execution_date
    /\ equity_curve' # equity_curve =>
          /\ Len(equity_curve') = Len(equity_curve) + 1
          /\ equity_curve'[Len(equity_curve')].date = all_dates[day]
          /\ \A i \in DOMAIN equity_curve :
                equity_curve[i].date < equity_curve'[Len(equity_curve')].date
          /\ \A i \in DOMAIN trades : trades[i].execution_date <= all_dates[day]

\* C11: dates are processed in strictly ascending order; a fill is appended
\* only on its execution date, before that date's snapshot and after every
\* earlier date's snapshot; the ledger is ordered by execution date, and on one
\* date the next_open fills (keyed to the previous date) precede the close
\* fills (keyed to the date itself)
C11_DayPhaseOrder == [][DayPhaseStep]_vars

\* C11 witness: a ledger holding a next_open fill and a close fill executed on
\* the same date, whose snapshot has been taken
C11_Witness ==
    \E i \in DOMAIN trades, j \in DOMAIN trades :
        /\ i < j
        /\ trades[i].execution_mode = "next_open"
        /\ trades[j].execution_mode = "close"
        /\ trades[i].execution_date = trades[j].execution_date
        /\ \E k \in DOMAIN equity_curve : equity_curve[k].date = trades[j].execution_date

\* every signal of the run has the (date, symbol, timing) key of the first
SameKeyRun ==
    /\ signals # <<>>
    /\ \A i \in DOMAIN signals :
          /\ signals[i].date = signals[1].date
          /\ signals[i].symbol = signals[1].symbol
          /\ Bucket(signals[i]) = Bucket(signals[1])
    /\ signals[1].symbol \in DOMAIN data_map

\* the date on which the key of a same-key run is executed (0 when there is
\* none) and the price it is executed at
KeyDate ==
    LET g == signals[1]
        at == {k \in DOMAIN all_dates : all_dates[k] = g.date}
        k == CHOOSE x \in at : TRUE
    IN  IF at = {} THEN 0
        ELSE IF Bucket(g) = "close" THEN g.date
        ELSE IF k < Len(all_dates) THEN all_dates[k + 1]
        ELSE 0

KeyPrice ==
    LET bar == BarOn(data_map[signals[1].symbol], KeyDate)
    IN  IF Bucket(signals[1]) = "close" THEN bar.close ELSE bar.open

\* the key has been executed: its date's snapshot is in the equity curve
KeyDone ==
    /\ SameKeyRun
    /\ KeyDate \in BarDates(data_map[signals[1].symbol])
    /\ \E i \in DOMAIN equity_curve : equity_curve[i].date = KeyDate

RECURSIVE Replay(_, _, _, _, _)
\* the signals taken one after the other in input order, each sized and
\* checked against the cash c and the holding h left by the one before
Replay(sigs, price, comm, c, h) ==
    IF sigs = <<>> THEN [cash |-> c, held |-> h, fills |-> <<>>]
    ELSE LET g == Head(sigs)
             want == DesiredShares(g.type, g.amount, price)
             sold == IF want < h THEN want ELSE h
             buys == g.amount > 0 /\ want > 0 /\ want * price * (100 + comm) <= c
             sells == g.amount < 0 /\ sold > 0
             rest == Replay(Tail(sigs), price, comm,
                            IF buys THEN c - want * price * (100 + comm)
                            ELSE IF sells THEN c + sold * price * (100 - comm)
                            ELSE c,
                            IF buys THEN h + want ELSE IF sells THEN h - sold ELSE h)
         IN  [rest EXCEPT !.fills =
                 (IF buys THEN <<<<"buy", want>>>>
                  ELSE IF sells THEN <<<<"sell", sold>>>>
                  ELSE <<>>) \o rest.fills]

\* C12: when all the signals of a run share one (date, symbol, timing) key,
\* the run's fills, cash and holding are those of taking the signals in input
\* order, each against the cash and the holding left by the previous one
C12_SameKeyOrder ==
    KeyDone =>
        LET r == Replay(signals, KeyPrice, commission, initial_cash, 0)
        IN  /\ cash = r.cash
            /\ (IF mode = "single" THEN shares
                ELSE Held(positions, signals[1].symbol)) = r.held
            /\ [i \in DOMAIN trades |-> <<trades[i].type, trades[i].size>>] = r.fills

\* C12 witness: two equal buys of one key, each affordable alone but not
\* together: the first has filled and the second has been rejected
C12_Witness ==
    /\ KeyDone
    /\ Len(signals) = 2
    /\ signals[1] = signals[2]
    /\ signals[1].amount > 0
    /\ Len(trades) = 1
    /\ trades[1].type = "buy"

\* C13: every fill of the ledger has a whole share size of at least 1 (and so
\* a positive value); a signal whose size comes to 0 leaves no fill
C13_FillSizePositive ==
    \A i \in DOMAIN trades :
        /\ trades[i].size \in Nat
        /\ trades[i].size >= 1
        /\ trades[i].value > 0

\* C13 witness: a finished run of two signals of one date; the first, a buy
\* of 0.50 (less than one share), left no fill and the second filled
C13_Witness ==
    /\ status = "finished"
    /\ Len(signals) = 2
    /\ signals[1].amount = 50
    /\ signals[2].amount = 300
    /\ signals[1].date = signals[2].date
    /\ signals[1].symbol = signals[2].symbol
    /\ Len(trades) = 1
    /\ trades[1].size = 3

\* the step is an execute_trade call
TradeStep == status = "running" /\ pending # <<>> /\ Head(pending).kind = "trade"

\* the full cost of the desired size of the buy at the head of the day's work
DesiredCost ==
    LET t == Head(pending)
    IN  DesiredShares(TypeOf(t.signal), AmountOf(t.signal), t.execution_price)
            * t.execution_price * (100 + commission)

\* C14: an execute_trade call that records no fill leaves cash and every
\* position as they were; without a reserve, a buy whose full cost exceeds the
\* cash records no fill, and a buy that fills is filled at its full desired size
C14_RejectionFrame ==
    [][TradeStep =>
         /\ trades' = trades =>
               cash' = cash /\ shares' = shares /\ positions' = positions
         /\ (AmountOf(Head(pending).signal) > 0 /\ constraints.reserveCash = 0) =>
               /\ DesiredCost > cash => trades' = trades
               /\ trades' # trades =>
                     /\ Len(NewFills) = 1
                     /\ NewFills[1].size * NewFills[1].price * (100 + commission)
                            = DesiredCost]_vars

\* C14 witness: two equal buys of 3 shares; the first filled and the second
\* was rejected although the cash left would have paid for one share
C14_Witness ==
    /\ Len(signals) = 2
    /\ signals[1] = signals[2]
    /\ signals[1].amount = 300
    /\ Len(equity_curve) >= 1
    /\ Len(trades) = 1
    /\ cash >= trades[1].price * (100 + commission)

\* C15: a signal whose date is not a bar date of its own symbol's series is
\* never executed: every fill of the ledger comes from a signal dated on a bar
\* date of the symbol it trades
C15_OffCalendarNeverFills ==
    \A i \in DOMAIN trades :
        trades[i].signal_date \in BarDates(data_map[FillSymbol(trades[i])])

\* a signal the boundary has to refuse: unknown kind, no amount, or an
\* execution timing that is neither of the two known ones
InvalidSignal(g) ==
    \/ "type" \notin DOMAIN g
    \/ g.type \notin {"v", "a"}
    \/ "amount" \notin DOMAIN g
    \/ ("execution" \in DOMAIN g /\ g.execution \notin {"close", "next_open"})

\* C16: a run whose signal list holds a signal of unknown kind, without
\* amount or with an unknown execution timing never starts executing: it is
\* rejected with no fill, no snapshot and no work scheduled
C16_BoundaryValidation ==
    (\E i \in DOMAIN signals : InvalidSignal(signals[i])) =>
        /\ status \in {"validating", "rejected"}
        /\ trades = <<>>
        /\ equity_curve = <<>>
        /\ pending = <<>>

\* C16 witness: a rejected run whose first signal is well-formed and whose
\* second signal carries the unknown timing "open"
C16_Witness ==
    /\ status = "rejected"
    /\ Len(signals) = 2
    /\ ~InvalidSignal(signals[1])
    /\ "execution" \in DOMAIN signals[2]
    /\ signals[2].execution = "open"
    /\ signals[2].type = "a"

\* C17: a portfolio run with a signal for a symbol that has no price series
\* is rejected by the validation and never runs
C17_UnknownSymbolRejected ==
    (mode = "portfolio" /\ \E i \in DOMAIN signals : signals[i].symbol \notin DOMAIN data_map)
        => status \in {"validating", "rejected"}

\* C18: a finished run with at least one snapshot reports totalReturn = the
\* last snapshot's value - initial_cash and totalReturnPct = totalReturn /
\* initial_cash * 100 (0 when initial_cash <= 0)
C18_TotalReturn ==
    (status = "finished" /\ Len(equity_curve) >= 1) =>
        /\ metrics.computed
        /\ metrics.totalReturn = equity_curve[Len(equity_curve)].value - initial_cash
        /\ IF initial_cash > 0
           THEN metrics.totalReturnPct.num * initial_cash
                    = metrics.totalReturn * 100 * metrics.totalReturnPct.den
           ELSE metrics.totalReturnPct.num = 0

\* the largest element of a non-empty set of integers
MaxOf(S) == CHOOSE x \in S : \A y \in S : y <= x

\* the running peak at snapshot k: over initial_cash and the values so far,
\* or over the values so far only
PeakAt(k) == MaxOf({initial_cash} \cup {equity_curve[i].value : i \in 1 .. k})
CurvePeakAt(k) == MaxOf({equity_curve[i].value : i \in 1 .. k})

\* C19 as stated: maxDrawdownPct is the largest (peak - value) / peak over the
\* curve with peak the running maximum of the curve's values, and maxDrawdown
\* is peak - value at a snapshot that attains it
C19_DrawdownCurvePeak ==
    metrics.computed =>
        LET num == metrics.maxDrawdownPct.num
            den == metrics.maxDrawdownPct.den
        IN  /\ den > 0
            /\ \A k \in DOMAIN equity_curve :
                  CurvePeakAt(k) > 0 =>
                      (CurvePeakAt(k) - equity_curve[k].value) * den <= num * CurvePeakAt(k)
            /\ \/ num = 0 /\ metrics.maxDrawdown = 0
               \/ \E k \in DOMAIN equity_curve :
                     /\ CurvePeakAt(k) > 0
                     /\ (CurvePeakAt(k) - equity_curve[k].value) * den = num * CurvePeakAt(k)
                     /\ metrics.maxDrawdown = CurvePeakAt(k) - equity_curve[k].value

\* C19 amended: the same with the running peak starting at initial_cash: peak
\* is the maximum of initial_cash and the curve's values up to the snapshot
C19_Drawdown ==
    metrics.computed =>
        LET num == metrics.maxDrawdownPct.num
            den == metrics.maxDrawdownPct.den
        IN  /\ den > 0
            /\ \A k \in DOMAIN equity_curve :
                  PeakAt(k) > 0 =>
                      (PeakAt(k) - equity_curve[k].value) * den <= num * PeakAt(k)
            /\ \/ num = 0 /\ metrics.maxDrawdown = 0
               \/ \E k \in DOMAIN equity_curve :
                     /\ PeakAt(k) > 0
                     /\ (PeakAt(k) - equity_curve[k].value) * den = num * PeakAt(k)
                     /\ metrics.maxDrawdown = PeakAt(k) - equity_curve[k].value

\* C19 witness: a report whose maxDrawdown is positive and smaller than the
\* absolute drawdown of another snapshot
C19_Witness ==
    /\ metrics.computed
    /\ metrics.maxDrawdown > 0
    /\ \E k \in DOMAIN equity_curve :
          PeakAt(k) - equity_curve[k].value > metrics.maxDrawdown

\* the distinct trading dates of the input: the bar dates of the series, or
\* of all the symbols' series together
TradingDates ==
    IF mode = "single" THEN BarDates(data_map[SingleSymbol])
    ELSE UNION {BarDates(data_map[s]) : s \in DOMAIN data_map}

CurveDates == {equity_curve[i].date : i \in DOMAIN equity_curve}

\* the dates of the curve are trading dates in strictly ascending order, and
\* a finished run has exactly one snapshot for each trading date
CurveShape ==
    /\ CurveDates \subseteq TradingDates
    /\ \A i \in DOMAIN equity_curve, j \in DOMAIN equity_curve :
          i < j => equity_curve[i].date < equity_curve[j].date
    /\ status = "finished" =>
          /\ CurveDates = TradingDates
          /\ Len(equity_curve) = Cardinality(TradingDates)

\* a step leaves the curve alone or appends one snapshot to it
CurveAppendOnly ==
    \/ equity_curve' = equity_curve
    \/ /\ Len(equity_curve') = Len(equity_curve) + 1
       /\ SubSeq(equity_curve', 1, Len(equity_curve)) = equity_curve

\* C20: the equity curve holds one snapshot per distinct trading date, in
\* strictly ascending date order, complete when the run finishes; a snapshot
\* once appended is never changed or removed
C20_OneSnapshotPerDate == [](CurveShape) /\ [][CurveAppendOnly]_vars

\* C20 witness: a finished portfolio run over three dates, on the second of
\* which one symbol has no bar, with a fill on the last date after the
\* earlier snapshots were taken
C20_Witness ==
    /\ status = "finished"
    /\ mode = "portfolio"
    /\ Len(equity_curve) = 3
    /\ \E s \in DOMAIN data_map : 2 \notin BarDates(data_map[s])
    /\ \E i \in DOMAIN trades : trades[i].execution_date = 3

\* the sells of one symbol that are wins under first-in-first-out pairing
\* with the buys of the same symbol
FifoWins(ledger, symbol) ==
    SelectSeq(PairTrades(FillsOf(ledger, symbol), <<>>), LAMBDA p : p.sell > p.buy)

\* C21: in a finished portfolio run the win rate reported for a symbol S is
\* the share of S's sells whose price is above the price of the buy of S
\* that first-in-first-out pairing matches them with
C21_PerSymbolWinFifo ==
    (mode = "portfolio" /\ status = "finished") =>
        \A i \in DOMAIN per_symbol_metrics :
            LET e == per_symbol_metrics[i]
                sells == SelectSeq(FillsOf(trades, e.symbol), LAMBDA t : t.type = "sell")
            IN  Len(sells) > 0 =>
                    e.winRate.num * Len(sells)
                        = Len(FifoWins(trades, e.symbol)) * 100 * e.winRate.den

\* the external rows whose normalized date is the date of the i-th main row
MatchesOf(i) == SelectSeq(ext_df, LAMBDA r : Normalize(r.date) = Normalize(main_df[i]))

\* C22: merging an external dataset is a left join on date: the merged
\* dataset has exactly the main dataset's dates, one row for each and in the
\* same number, whatever dates the external dataset has; a main date the
\* external dataset lacks has a missing value, and no external date is added
C22_LeftJoinKeepsRows ==
    (status = "merged" /\ ext_df # <<>>) =>
        /\ Len(result_df) = Len(main_df)
        /\ \A i \in DOMAIN result_df :
              /\ result_df[i].date = Normalize(main_df[i])
              /\ MatchesOf(i) = <<>> => result_df[i].value = NaN
              /\ MatchesOf(i) # <<>> =>
                    \E k \in DOMAIN MatchesOf(i) : result_df[i].value = MatchesOf(i)[k].value

\* the cash above the reserve, in units of 1/100 of a hundredth
Available100 == cash * 100 - initial_cash * constraints.reserveCash

\* n shares at the price of the call at the head of the day's work, with
\* commission, are paid for by the cash above the reserve
ReserveAllows(n) ==
    n * Head(pending).execution_price * (100 + commission) * 100 <= Available100

\* the step is a buy of portfolio_backtest that the reserve shrinks: the cap on
\* positions lets it through and its full cost would take cash below the reserve
ShrinkStep ==
    /\ TradeStep /\ mode = "portfolio"
    /\ constraints.reserveCash # 0
    /\ TypeOf(Head(pending).signal) \in {"v", "a"}
    /\ AmountOf(Head(pending).signal) > 0
    /\ ~MaxPositionsBlocks(constraints, positions, Head(pending).symbol)
    /\ (cash - DesiredCost) * 100 < initial_cash * constraints.reserveCash

\* C23: a buy of either kind that the reserve shrinks is filled at the largest
\* size n whose cost with commission fits in the cash above the reserve; n is
\* at most the desired size, the fill's value and commission and the cash
\* debit are computed from n, and the buy is rejected when n is 0
C23_ReserveShrinkMaximal ==
    [][ShrinkStep =>
          LET t == Head(pending)
              want == DesiredShares(TypeOf(t.signal), AmountOf(t.signal), t.execution_price)
          IN  \E n \in 0 .. want :
                  /\ n > 0 => ReserveAllows(n)
                  /\ ~ReserveAllows(n + 1)
                  /\ n = 0 => trades' = trades /\ cash' = cash /\ positions' = positions
                  /\ n > 0 =>
                        /\ Len(NewFills) = 1
                        /\ NewFills[1].type = "buy"
                        /\ NewFills[1].size = n
                        /\ NewFills[1].value = n * t.execution_price * 100
                        /\ NewFills[1].commission = n * t.execution_price * commission
                        /\ cash' = cash - (NewFills[1].value + NewFills[1].commission)
                        /\ Held(positions', t.symbol) = Held(positions, t.symbol) + n]_vars

\* C23 witness: with 500 of cash and a reserve of 250, two buys of 3 shares at
\* price 1: the first was shrunk to the 2 shares that 250 pays for, the second
\* was shrunk to nothing and rejected
C23_Witness ==
    /\ constraints.reserveCash = 50
    /\ Len(signals) = 2
    /\ \A i \in 1 .. 2 : signals[i].amount = 300 /\ signals[i].date = 1
    /\ signals[1].type = "a" /\ signals[2].type = "v"
    /\ signals[1].symbol = signals[2].symbol
    /\ Len(equity_curve) >= 1
    /\ Len(trades) = 1
    /\ trades[1].size = 2 /\ trades[1].price = 1
    /\ cash = 280

\* the execute_trade call at the head of the day's work, made in the current
\* state under the constraints cons
CallUnder(cons) ==
    LET t == Head(pending)
    IN  PortfolioExecuteTrade(t.signal, t.symbol, t.execution_date, t.execution_price,
                              t.signal_date, t.signal_price, t.execution_mode, cash,
                              positions, initial_cash, commission, cons)

\* the step is a buy for a symbol that is held, made with the cap reached
HeldBuyAtCapStep ==
    /\ TradeStep /\ mode = "portfolio"
    /\ constraints.maxPositions # 0
    /\ PositionCount(positions) >= constraints.maxPositions
    /\ AmountOf(Head(pending).signal) > 0
    /\ Held(positions, Head(pending).symbol) > 0

\* C24: with the number of held symbols at maxPositions, a buy for a symbol
\* that is held is sized and filled exactly as the same call is with no cap
\* configured: the same fill, the same cash and the same positions
C24_CapOnlyNewPositions ==
    [][HeldBuyAtCapStep =>
          LET free == CallUnder([constraints EXCEPT !.maxPositions = 0])
          IN  /\ NewFills = free.fill
              /\ cash' = free.cash
              /\ positions' = free.positions]_vars

\* C24 witness: with the cap at 1, two buys of the same symbol on one date:
\* the second, made with the symbol held and the cap reached, was filled
C24_Witness ==
    /\ constraints.maxPositions = 1
    /\ Len(trades) = 2
    /\ trades[1].type = "buy" /\ trades[2].type = "buy"
    /\ trades[1].symbol = trades[2].symbol
    /\ trades[1].execution_date = trades[2].execution_date
    /\ PositionCount(positions) = 1

\* n is the whole number of units of size unit (in hundredths) in |amount|:
\* floor(|amount| / unit)
IsFloorOf(n, amount, unit) == n * unit <= Abs(amount) /\ Abs(amount) < (n + 1) * unit

\* the shares the call at the head of the day's work finds held for its symbol
HeldBefore == IF mode = "single" THEN shares ELSE Held(positions, Head(pending).symbol)

\* C25: a fill that no constraint altered has the side of its signal's sign
\* (buy iff amount > 0, sell iff amount < 0) and the truncated size
\* floor(|amount| / execution price) for type 'v', floor(|amount|) for type
\* 'a', capped at the shares held when it is a sell
C25_SizingFloor ==
    [][(TradeStep /\ trades' # trades /\ ~ShrinkStep) =>
          LET t == Head(pending)
              amount == AmountOf(t.signal)
              unit == IF TypeOf(t.signal) = "v" THEN 100 * t.execution_price ELSE 100
          IN  /\ Len(NewFills) = 1
              /\ NewFills[1].type = "buy" <=> amount > 0
              /\ NewFills[1].type = "sell" <=> amount < 0
              /\ amount > 0 => IsFloorOf(NewFills[1].size, amount, unit)
              /\ amount < 0 =>
                    \E raw \in 0 .. Abs(amount) :
                        /\ IsFloorOf(raw, amount, unit)
                        /\ NewFills[1].size = IF raw < HeldBefore THEN raw ELSE HeldBefore]_vars

\* C25 witness: on a date closing at 2, a 'v' buy of 3.00 was filled at 1 share
\* (1.5 truncated) and the 'a' sell of 2 shares after it was capped at the 1 held
C25_Witness ==
    /\ Len(signals) = 2
    /\ signals[1].type = "v" /\ signals[1].amount = 300
    /\ signals[2].type = "a" /\ signals[2].amount = -200
    /\ Len(trades) = 2
    /\ trades[1].type = "buy" /\ trades[1].price = 2 /\ trades[1].size = 1
    /\ trades[2].type = "sell" /\ trades[2].size = 1

\* C26: every fill records value = size * price and commission = size * price
\* * rate, a buy debits cash by value + commission and a sell credits it by
\* value - commission, so that in every state cash is the initial cash minus
\* the buys' value + commission plus the sells' value - commission
C26_CashAccounting ==
    /\ \A i \in DOMAIN trades :
          /\ trades[i].value = trades[i].size * trades[i].price * 100
          /\ trades[i].commission * 100 = trades[i].value * commission
    /\ cash = initial_cash
              - SumSeq([i \in DOMAIN trades |->
                           IF trades[i].type = "buy"
                           THEN trades[i].value + trades[i].commission ELSE 0])
              + SumSeq([i \in DOMAIN trades |->
                           IF trades[i].type = "sell"
                           THEN trades[i].value - trades[i].commission ELSE 0])

\* C26 witness: a finished run that bought 3 shares at 1 (3.30 debited) and
\* sold 2 of them at 2 (3.60 credited), ending with 5.30 from 5.00
C26_Witness ==
    /\ status = "finished"
    /\ initial_cash = 500
    /\ Len(trades) = 2
    /\ trades[1].type = "buy" /\ trades[1].size = 3 /\ trades[1].price = 1
    /\ trades[2].type = "sell" /\ trades[2].size = 2 /\ trades[2].price = 2
    /\ cash = 530

\* the calendar date that follows d (d itself when it is the last or not a
\* date of the calendar)
NextTradingDate(d) ==
    IF \E k \in 1 .. Len(all_dates) - 1 : all_dates[k] = d
    THEN all_dates[(CHOOSE k \in 1 .. Len(all_dates) - 1 : all_dates[k] = d) + 1]
    ELSE d

\* a fill carries the dates and prices of its execution timing, read from the
\* bars of its own symbol
FillTimed(f) ==
    LET df == data_map[FillSymbol(f)]
    IN  /\ f.execution_date \in BarDates(df)
        /\ f.execution_mode = "close" =>
              /\ f.execution_date = f.signal_date
              /\ f.price = BarOn(df, f.execution_date).close
              /\ f.signal_price = f.price
        /\ f.execution_mode = "next_open" =>
              /\ f.execution_date # f.signal_date
              /\ f.execution_date = NextTradingDate(f.signal_date)
              /\ f.price = BarOn(df, f.execution_date).open
              /\ f.signal_date \in BarDates(df)
              /\ f.signal_price = BarOn(df, f.signal_date).close

\* C27: a fill at the close is executed on its signal's date at that date's
\* close, which is also its reference price; a fill at the next open is
\* executed on the trading date after its signal's date at that date's open,
\* with the close of the signal's date as its reference price
C27_FillPricesByTiming == \A i \in DOMAIN trades : FillTimed(trades[i])

\* the next_open signals of known symbols keyed to the date d
DueAfter(d) ==
    SelectSeq(signals, LAMBDA g : /\ g.date = d /\ Bucket(g) = "next_open"
                                  /\ g.symbol \in DOMAIN data_map)

\* the execute_trade calls at the open in a day's work
OpenCalls(work) ==
    SelectSeq(work, LAMBDA t : t.kind = "trade" /\ t.execution_mode = "next_open")

\* the day's work w of the calendar date of index k attempts each next_open
\* signal keyed to the date before it once, at the open its symbol has on
\* that date
AttemptsDue(w, k) ==
    LET due == DueAfter(all_dates[k - 1])
        calls == OpenCalls(w)
    IN  /\ \A s \in DOMAIN data_map :
              Len(SelectSeq(calls, LAMBDA t : t.symbol = s))
                  = Len(SelectSeq(due, LAMBDA g : g.symbol = s))
        /\ \A n \in DOMAIN calls :
              LET t == calls[n]
              IN  /\ t.execution_date = all_dates[k]
                  /\ t.signal_date = all_dates[k - 1]
                  /\ \E i \in DOMAIN due : due[i] = t.signal
                  /\ all_dates[k] \in BarDates(data_map[t.symbol])
                  /\ t.execution_price = BarOn(data_map[t.symbol], all_dates[k]).open

\* C28: when the day loop moves on to a calendar date, the work of that date
\* attempts every next_open signal keyed to the date before it exactly once,
\* at that date's open for its symbol (unless a price check of that date
\* aborts the run); none is dropped without an attempt or left for later
C28_NextOpenExactlyOnce ==
    [][(status' = "running" /\ day' = day + 1 /\ day' <= Len(all_dates)
        /\ \A n \in DOMAIN pending' : pending'[n].kind = "trade")
          => AttemptsDue(pending', day')]_vars

\* the symbol has no bar on or before the date
NoBarUpTo(symbol, d) == \A e \in BarDates(data_map[symbol]) : e > d

\* the close of the symbol's latest bar dated before d
LastCloseBefore(symbol, d) ==
    LET df == data_map[symbol]
        k == CHOOSE i \in DOMAIN df :
                 /\ df[i].date < d
                 /\ \A j \in DOMAIN df : df[j].date < d => df[j].date <= df[i].date
    IN  df[k].close

\* the price a held symbol is worth on d: the close of its bar of d, or of
\* its latest bar before d
PriceFor(symbol, d) ==
    IF d \in BarDates(data_map[symbol]) THEN BarOn(data_map[symbol], d).close
    ELSE LastCloseBefore(symbol, d)

\* the end of a date's work in portfolio_backtest with a symbol held that has
\* no bar on the date, every held symbol that has one closing above 0
FallbackStep ==
    /\ mode = "portfolio" /\ status = "running" /\ pending = <<>>
    /\ day <= Len(all_dates)
    /\ \E s \in HeldSymbols(positions) : all_dates[day] \notin BarDates(data_map[s])
    /\ \A s \in HeldSymbols(positions) :
          all_dates[day] \in BarDates(data_map[s]) =>
              BarOn(data_map[s], all_dates[day]).close > 0

\* C29: the snapshot of a date d on which a held symbol has no bar is taken,
\* the run goes on, and the symbol is valued at its shares times the close of
\* its latest bar before d, which is part of the snapshot's value; a symbol
\* with no bar on or before a date of the calendar is worth 0 on that date
\* when it is given a share
C29_FallbackValuation ==
    [][FallbackStep =>
          LET d == all_dates[day]
              e == equity_curve'[Len(equity_curve')]
          IN  /\ status' = "running"
              /\ Len(equity_curve') = Len(equity_curve) + 1
              /\ e.date = d
              /\ \A s \in HeldSymbols(positions) :
                    d \notin BarDates(data_map[s]) =>
                        e.stock_values[s] = positions[s] * LastCloseBefore(s, d) * 100
              /\ e.value = cash + SumFun([s \in HeldSymbols(positions) |->
                                             positions[s] * PriceFor(s, d) * 100])
              /\ \A s \in DOMAIN data_map : \A k \in DOMAIN all_dates :
                    NoBarUpTo(s, all_dates[k]) =>
                        LET one == [t \in {s} |-> 1]
                        IN  /\ StockValues(data_map, one, all_dates[k])[s] = 0
                            /\ PortfolioValue(data_map, one, cash, all_dates[k]) = cash]_vars

\* C29 witness: 2 shares of B bought on date 2, the last date B has a bar of
\* (close 2), are worth 4.00 in the snapshot of date 3, B's bar of date 1
\* closing at 1
C29_Witness ==
    /\ data_map = DataStops
    /\ Len(equity_curve) = 3
    /\ Held(equity_curve[3].positions, "B") = 2
    /\ equity_curve[3].stock_values["B"] = 400
    /\ equity_curve[3].value = equity_curve[3].cash + 400

\* the ledger positions of the buys and of the sells, in ledger order
BuyIndices == SelectSeq([i \in DOMAIN trades |-> i], LAMBDA i : trades[i].type = "buy")
SellIndices == SelectSeq([i \in DOMAIN trades |-> i], LAMBDA i : trades[i].type = "sell")

\* the number of buys among the first i fills
BuysUpTo(i) == Cardinality({j \in 1 .. i : trades[j].type = "buy"})

RECURSIVE PairedUpTo(_)
\* the number of sells among the first i fills that found an unpaired buy
PairedUpTo(i) ==
    IF i = 0 THEN 0
    ELSE LET before == PairedUpTo(i - 1)
         IN  IF trades[i].type = "sell" /\ BuysUpTo(i - 1) > before
             THEN before + 1 ELSE before

\* C30: in the metrics of a run, each sell is paired with the price of the
\* oldest earlier buy not yet paired, one buy per sell whatever the sizes; a
\* sell that finds no unpaired buy is not counted; tradeCount is the number
\* of paired sells, a pair is won iff the sell price is above the buy price
\* and lost otherwise, and wonTrades + lostTrades = tradeCount <= min(number
\* of buys, number of sells)
C30_RunLevelPairing ==
    (status = "finished" /\ metrics.computed) =>
        LET pairs == metrics.sell_prices
        IN  /\ metrics.tradeCount = PairedUpTo(Len(trades))
            /\ Len(pairs) = metrics.tradeCount
            /\ \A i \in DOMAIN trades :
                  (trades[i].type = "sell" /\ BuysUpTo(i - 1) > PairedUpTo(i - 1)) =>
                      LET k == PairedUpTo(i)
                      IN  /\ BuyIndices[k] < i
                          /\ pairs[k] = [sell |-> trades[i].price,
                                          buy |-> trades[BuyIndices[k]].price]
            /\ metrics.wonTrades
                  = Cardinality({k \in DOMAIN pairs : pairs[k].sell > pairs[k].buy})
            /\ metrics.lostTrades
                  = Cardinality({k \in DOMAIN pairs : ~(pairs[k].sell > pairs[k].buy)})
            /\ metrics.wonTrades + metrics.lostTrades = metrics.tradeCount
            /\ metrics.tradeCount <= Len(BuyIndices)
            /\ metrics.tradeCount <= Len(SellIndices)

\* C30 witness: a buy of 2 shares and two sells of 1 share each: the first
\* sell took the only buy price, the second found none and is not counted
C30_Witness ==
    /\ status = "finished" /\ metrics.computed
    /\ Len(trades) = 3
    /\ trades[1].type = "buy" /\ trades[1].size = 2
    /\ trades[2].type = "sell" /\ trades[3].type = "sell"
    /\ metrics.tradeCount = 1
    /\ metrics.sell_prices[1].buy = trades[1].price
    /\ metrics.sell_prices[1].sell = trades[2].price

\* C31: with maxPositions given as 0 the cap is reached from the start: no buy
\* is ever filled and no symbol is ever held, in any state and any snapshot
C31_CapZeroBlocksBuys ==
    (mode = "portfolio" /\ constraints.maxPositions = 0) =>
        /\ \A i \in DOMAIN trades : trades[i].type # "buy"
        /\ PositionCount(positions) = 0
        /\ \A i \in DOMAIN equity_curve : PositionCount(equity_curve[i].positions) = 0

\* an execute_trade call that records no fill does not abort the run and the
\* rest of the day's work stays to be done
RejectionGoesOn ==
    (TradeStep /\ trades' = trades) =>
        /\ status' = "running"
        /\ pending' = Tail(pending)
        /\ day' = day

\* a run aborts only at a price check that fails or in the valuation at the
\* end of a date
AbortOnDataOnly ==
    (status = "running" /\ status' = "error") =>
        \/ pending # <<>> /\ Head(pending).kind = "raise"
        \/ pending = <<>> /\ mode = "portfolio"

\* C32: every run ends, finished with a snapshot of every date or aborted on a
\* data error; a call that is rejected (cash, reserve, cap, zero size) never
\* aborts the run and the calls after it are still made
C32_Terminates ==
    /\ [][RejectionGoesOn /\ AbortOnDataOnly]_vars
    /\ [](status = "finished" => Len(equity_curve) = Len(all_dates))
    /\ <>(status \in {"finished", "error"})

\* C32 witness: a finished run whose first signal, a sell with nothing held,
\* was rejected and whose second signal of the same date was filled
C32_Witness ==
    /\ status = "finished"
    /\ Len(equity_curve) = Len(all_dates)
    /\ Len(signals) = 2
    /\ signals[1].amount = -200 /\ signals[2].amount = 300
    /\ signals[1].date = signals[2].date
    /\ signals[1].symbol = signals[2].symbol
    /\ Len(trades) = 1 /\ trades[1].type = "buy"

\* the signals of the input list with one key: date, symbol and timing
SignalsOfKey(d, symbol, bucket) ==
    SelectSeq(signals, LAMBDA g : g.date = d /\ g.symbol = symbol /\ Bucket(g) = bucket)

\* the fills of the ledger that come from signals of one key
FillsOfKey(d, symbol, bucket) ==
    SelectSeq(trades, LAMBDA f : /\ f.signal_date = d /\ FillSymbol(f) = symbol
                                 /\ f.execution_mode = bucket)

\* the execute_trade calls for signals of one key in the work of the date of
\* index k
CallsOfKey(k, d, symbol, bucket) ==
    SelectSeq(TasksAt(mode, data_map, signals, all_dates, k),
              LAMBDA t : /\ t.kind = "trade" /\ t.signal_date = d
                         /\ t.symbol = symbol /\ t.execution_mode = bucket)

\* C33: each signal is attempted at most once in a run and gives at most one
\* fill: for every key the calls made over all dates and the fills recorded
\* are at most the signals of that key, the fills of one key have one
\* execution date, and the ledger is never longer than the signal list
C33_AtMostOnce ==
    /\ Len(trades) <= Len(signals)
    /\ \A d \in SignalDates, s \in DOMAIN data_map, b \in ExecutionModes :
          /\ Len(FillsOfKey(d, s, b)) <= Len(SignalsOfKey(d, s, b))
          /\ SumSeq([k \in DOMAIN all_dates |-> Len(CallsOfKey(k, d, s, b))])
                 <= Len(SignalsOfKey(d, s, b))
          /\ \A i, j \in DOMAIN FillsOfKey(d, s, b) :
                FillsOfKey(d, s, b)[i].execution_date = FillsOfKey(d, s, b)[j].execution_date
    /\ \A i \in DOMAIN trades :
          /\ trades[i].signal_date \in SignalDates
          /\ trades[i].execution_mode \in ExecutionModes

\* C33 witness: a finished run of two signals of one symbol and one date, one
\* for each timing, both filled: two fills for two signals
C33_Witness ==
    /\ status = "finished"
    /\ Len(signals) = 2 /\ Len(trades) = 2
    /\ signals[1].date = signals[2].date
    /\ signals[1].symbol = signals[2].symbol
    /\ signals[1].execution = "next_open" /\ signals[2].execution = "close"
    /\ trades[1].execution_mode = "close" /\ trades[2].execution_mode = "next_open"

\* the fills executed on or before the date d
FillsUpTo(d) == SelectSeq(trades, LAMBDA f : f.execution_date <= d)

\* C34: in every state the shares held of each symbol are the sizes of its buy
\* fills minus the sizes of its sell fills in the ledger, and the shares or
\* positions recorded in a snapshot are that net amount over the fills
\* executed up to the snapshot's date
C34_PositionConservation ==
    IF mode = "single"
    THEN /\ shares = NetShares(trades, SingleSymbol)
         /\ \A i \in DOMAIN equity_curve :
               equity_curve[i].shares
                   = NetShares(FillsUpTo(equity_curve[i].date), SingleSymbol)
    ELSE \A s \in DOMAIN data_map :
            /\ Held(positions, s) = NetShares(trades, s)
            /\ \A i \in DOMAIN equity_curve :
                  Held(equity_curve[i].positions, s)
                      = NetShares(FillsUpTo(equity_curve[i].date), s)

\* C34 witness: a portfolio snapshot taken with both symbols held, after a buy
\* of each
C34_Witness ==
    /\ mode = "portfolio"
    /\ Len(trades) = 2
    /\ trades[1].type = "buy" /\ trades[2].type = "buy"
    /\ trades[1].symbol # trades[2].symbol
    /\ Len(equity_curve) >= 1
    /\ PositionCount(equity_curve[Len(equity_curve)].positions) = 2

\* the symbol has a bar before d and its latest one closes above 0
PricedBefore(symbol, d) ==
    /\ \E e \in BarDates(data_map[symbol]) : e < d
    /\ LastCloseBefore(symbol, d) > 0

\* C35: in a portfolio run that has not aborted, a symbol held on a calendar
\* date on which it has no bar has a bar before that date and the latest one
\* closes above 0; every snapshot values such a symbol above 0, so the two
\* branches that value a held symbol at 0 are never taken
C35_ZeroBranchesUnreachable ==
    mode = "portfolio" =>
        /\ (status = "running" /\ day <= Len(all_dates)) =>
              \A s \in HeldSymbols(positions) :
                  all_dates[day] \notin BarDates(data_map[s]) =>
                      PricedBefore(s, all_dates[day])
        /\ \A i \in DOMAIN equity_curve :
              \A s \in HeldSymbols(equity_curve[i].positions) :
                  equity_curve[i].date \notin BarDates(data_map[s]) =>
                      /\ PricedBefore(s, equity_curve[i].date)
                      /\ equity_curve[i].stock_values[s] > 0

\* C35 witness: B, whose only bar is of date 2, is held on date 3
C35_Witness ==
    /\ data_map = DataLate
    /\ status = "running" /\ day = 3
    /\ Held(positions, "B") > 0
    /\ all_dates[day] \notin BarDates(data_map["B"])

\* the type 'a' signal for sign(A) * floor(|A| / p) shares, for the type 'v'
\* signal g of amount A and the price p
AsShareCount(g, p) ==
    LET n == Abs(g.amount) \div (100 * p)
    IN  [g EXCEPT !.type = "a", !.amount = IF g.amount < 0 THEN 0 - n * 100 ELSE n * 100]

\* what the call at the head of the day's work does in the current state when
\* it is given the signal g
CallWith(g) ==
    LET t == Head(pending)
    IN  IF mode = "single"
        THEN LET r == ManualExecuteTrade(g, t.execution_date, t.execution_price,
                                         t.signal_date, t.signal_price, t.execution_mode,
                                         cash, shares, commission)
             IN  [cash |-> r.cash, held |-> r.shares, fill |-> r.fill]
        ELSE LET r == PortfolioExecuteTrade(g, t.symbol, t.execution_date,
                                            t.execution_price, t.signal_date,
                                            t.signal_price, t.execution_mode, cash,
                                            positions, initial_cash, commission,
                                            constraints)
             IN  [cash |-> r.cash, held |-> r.positions, fill |-> r.fill]

\* C36: the call made for a type 'v' signal of amount A at price p changes
\* cash and positions and records a fill, or rejects, exactly as the call
\* for the type 'a' signal of sign(A) * floor(|A| / p) shares does in the same
\* state, with and without maxPositions and reserveCash
C36_KindEquivalence ==
    [][(TradeStep /\ TypeOf(Head(pending).signal) = "v") =>
          LET r == CallWith(AsShareCount(Head(pending).signal, Head(pending).execution_price))
          IN  /\ cash' = r.cash
              /\ NewFills = r.fill
              /\ IF mode = "single" THEN shares' = r.held ELSE positions' = r.held]_vars

\* C36 witness: with the reserve set, a single type 'v' buy of 3.00 at price 1
\* was filled at 2 shares, as the buy of 3 shares is
C36_Witness ==
    /\ constraints.reserveCash = 50
    /\ Len(signals) = 1
    /\ signals[1].type = "v" /\ signals[1].amount = 300
    /\ Len(trades) = 1
    /\ trades[1].size = 2 /\ trades[1].price = 1

\* the total equity of cash c and holdings (sh in single mode, pos in
\* portfolio mode) at the prices the snapshot of date d uses
EquityAt(c, sh, pos, d) ==
    IF mode = "single"
    THEN c + sh * BarOn(data_map[SingleSymbol], d).close * 100
    ELSE c + SumFun([s \in HeldSymbols(pos) |-> pos[s] * PriceFor(s, d) * 100])

\* the step is an execute_trade call at the close
CloseStep == TradeStep /\ Head(pending).execution_mode = "close"

\* the step appends the snapshot of the date
SnapshotStep ==
    /\ status = "running" /\ pending = <<>> /\ day <= Len(all_dates)
    /\ Len(equity_curve') = Len(equity_curve) + 1

\* C37: a call at the close lowers the total equity at the date's closing
\* prices by exactly the commission of the fill it records (by nothing when
\* it records none or the commission rate is 0), and the snapshot of the date
\* records the total equity so reached
C37_CloseFillCostsCommission ==
    [][/\ CloseStep =>
             /\ EquityAt(cash', shares', positions', all_dates[day])
                   = EquityAt(cash, shares, positions, all_dates[day])
                       - SumSeq([n \in DOMAIN NewFills |-> NewFills[n].commission])
             /\ commission = 0 =>
                   EquityAt(cash', shares', positions', all_dates[day])
                       = EquityAt(cash, shares, positions, all_dates[day])
       /\ SnapshotStep =>
             equity_curve'[Len(equity_curve')].value
                 = EquityAt(cash, shares, positions, all_dates[day])]_vars

\* C37 witness: date 1 has one fill, a buy of 2 shares at the close of 1 with
\* commission 0.20, and its snapshot shows 6.80 for the 7.00 the day began with
C37_Witness ==
    /\ commission = 10
    /\ Len(equity_curve) >= 1
    /\ Len(FillsUpTo(1)) = 1
    /\ trades[1].execution_mode = "close" /\ trades[1].type = "buy"
    /\ trades[1].commission = 20
    /\ equity_curve[1].value = initial_cash - 20

\* the constraints a sell is tried under: no, a reached and an unreached cap
\* with no reserve, a reserve of half and a reserve of twice the initial cash
SellConstraints == [maxPositions : {0, 1, 2}, reserveCash : {0, 50, 200}]

\* the size the call t starts from
WantOf(t) == DesiredShares(TypeOf(t.signal), AmountOf(t.signal), t.execution_price)

\* the call at the head of the day's work is a portfolio sell of at least one
\* share of a symbol that holds at least one
SellOfHeldStep ==
    /\ TradeStep /\ mode = "portfolio"
    /\ AmountOf(Head(pending).signal) < 0
    /\ WantOf(Head(pending)) >= 1
    /\ HeldBefore >= 1

\* the call at the head of the day's work with cash c and constraints cons
SellCall(c, cons) ==
    LET t == Head(pending)
    IN  PortfolioExecuteTrade(t.signal, t.symbol, t.execution_date, t.execution_price,
                              t.signal_date, t.signal_price, t.execution_mode, c,
                              positions, initial_cash, commission, cons)

\* C38: in portfolio mode a sell of at least one share of a held symbol
\* records one sell fill of min(desired, held) shares and takes them from the
\* position; the same call records the same fill under every maxPositions
\* and reserveCash and with every cash from 0 up, below the reserve floor
\* included
C38_SellsNeverBlocked ==
    [][SellOfHeldStep =>
          LET t == Head(pending)
              n == Min(WantOf(t), HeldBefore)
          IN  /\ Len(NewFills) = 1
              /\ NewFills[1].type = "sell" /\ NewFills[1].symbol = t.symbol
              /\ NewFills[1].size = n
              /\ Held(positions', t.symbol) = HeldBefore - n
              /\ \A cons \in SellConstraints : \A c \in 0 .. cash :
                    /\ SellCall(c, cons).fill = NewFills
                    /\ SellCall(c, cons).positions = positions'
                    /\ ~SellCall(c, cons).raised]_vars

\* C38 witness: with the cap of 1 reached and the reserve of half the cash
\* set, a sell of 2 shares of a symbol that held 1 was filled at 1 share
C38_Witness ==
    /\ constraints = [maxPositions |-> 1, reserveCash |-> 50]
    /\ Len(signals) = 2
    /\ signals[2].type = "a" /\ signals[2].amount = -200
    /\ Len(trades) = 2
    /\ trades[1].type = "buy" /\ trades[1].size = 1
    /\ trades[2].type = "sell" /\ trades[2].size = 1
    /\ trades[2].symbol = trades[1].symbol

\* the key a signal is bucketed under: (date, timing) in single mode,
\* (date, symbol, timing) in portfolio mode
KeyOf(signal) ==
    IF mode = "single" THEN <<signal.date, Bucket(signal)>>
    ELSE <<signal.date, signal.symbol, Bucket(signal)>>

\* the list with its i-th and (i+1)-th signals exchanged
Exchanged(sigs, i) ==
    [n \in DOMAIN sigs |-> IF n = i THEN sigs[i + 1] ELSE IF n = i + 1 THEN sigs[i] ELSE sigs[n]]

\* the lists one exchange of two neighbours of different keys away from the
\* input; such exchanges generate every permutation that keeps the order of
\* the signals of each key
KeyOrderNeighbours ==
    {Exchanged(signals, i) : i \in {n \in 1 .. Len(signals) - 1 :
                                      KeyOf(signals[n]) # KeyOf(signals[n + 1])}}

\* the place of a symbol in data_map.keys()
KeyIndex(symbol) == CHOOSE n \in DOMAIN KeysOf(data_map) : KeysOf(data_map)[n] = symbol

\* the calls of a date's work, raises left out
CallsIn(tasks) == SelectSeq(tasks, LAMBDA t : t.kind = "trade")

\* C39: a list that differs from the input by the order of signals of
\* different keys only gives every date the same work, call for call, as the
\* input does (and so the same ledger, equity curve and metrics), passes or
\* fails the validation alike and leaves the same count of skipped signals;
\* the work left of the current date is the tail of the work either list
\* gives; and in portfolio mode the calls of one pass of one date, and the
\* fills they record, follow the order of data_map's keys
C39_KeyOrderIndependence ==
    /\ \A sw \in KeyOrderNeighbours :
          /\ \A k \in DOMAIN all_dates :
                TasksAt(mode, data_map, sw, all_dates, k)
                    = TasksAt(mode, data_map, signals, all_dates, k)
          /\ SignalsValid(sw, mode) = SignalsValid(signals, mode)
          /\ mode = "single" =>
                \A d \in SignalDates : \A b \in {"close", "next_open"} :
                    ManualSignalsFor(sw, d, b) = ManualSignalsFor(signals, d, b)
          /\ (status = "running" /\ day <= Len(all_dates)) =>
                LET work == TasksAt(mode, data_map, sw, all_dates, day)
                IN  /\ Len(pending) <= Len(work)
                    /\ pending = SubSeq(work, Len(work) - Len(pending) + 1, Len(work))
    /\ mode = "portfolio" =>
          /\ \A k \in DOMAIN all_dates :
                LET calls == CallsIn(TasksAt(mode, data_map, signals, all_dates, k))
                IN  \A i, j \in DOMAIN calls :
                        (i < j /\ calls[i].execution_mode = calls[j].execution_mode) =>
                            KeyIndex(calls[i].symbol) <= KeyIndex(calls[j].symbol)
          /\ \A i, j \in DOMAIN trades :
                (/\ i < j
                 /\ trades[i].execution_date = trades[j].execution_date
                 /\ trades[i].execution_mode = trades[j].execution_mode) =>
                    KeyIndex(trades[i].symbol) <= KeyIndex(trades[j].symbol)

\* C39 witness: the list names B ahead of A for the close of one date, both
\* signals were filled, and the fill of A stands ahead of the fill of B
C39_Witness ==
    /\ mode = "portfolio" /\ status = "finished"
    /\ Len(signals) = 2
    /\ signals[1].symbol = "B" /\ signals[2].symbol = "A"
    /\ signals[1].date = signals[2].date
    /\ signals[1].execution = "close" /\ signals[2].execution = "close"
    /\ Len(trades) = 2
    /\ trades[1].symbol = "A" /\ trades[2].symbol = "B"
    /\ trades[1].execution_date = trades[2].execution_date

====
